---- MODULE Spec2Model ----
(***************************************************************************)
(* A model of the AIMD token bucket of src/src/index.ts: the AIMDBucket    *)
(* class (reservoir, refill/drain, pending-check timer, AIMD adjustment,   *)
(* shutdown) and the AIMDBucketToken lease with its expiry timer.          *)
(*                                                                         *)
(* Numbers that the code keeps as floating point (rate, tokens, capacity   *)
(* and the configured rates and ratios) are exact rationals [n, d] in      *)
(* lowest terms.  Time is the integer millisecond clock Date.now().        *)
(* Timers fire when the clock has reached their deadline; the clock does   *)
(* not pass an armed deadline before the callback has run.                 *)
(***************************************************************************)
EXTENDS Integers, Sequences, FiniteSets, TLC

---------------------------------------------------------------------------
(* Bounds of the model                                                     *)

\* The number of acquire calls the callers make
MaxCalls == 5

\* The number of clock steps during which the callers are active
MaxSteps == 2

\* The number of rounds (acquire, then report) of the single caller
MaxRounds == 10

\* The number of long pauses the single caller makes
MaxPauses == 1

\* The largest number of samples tried when looking for the least number
\* of samples that moves the rate
MaxSamplesTried == 8

---------------------------------------------------------------------------
(* Exact rational arithmetic for the code's floating point numbers          *)

\* Euclid's algorithm, on the pair <<a, b>>
GCD[p \in Nat \X Nat] ==
    IF p[2] = 0 THEN p[1] ELSE GCD[<<p[2], p[1] % p[2]>>]

Abs(x) == IF x < 0 THEN -x ELSE x

Q(n, d) ==
    LET g == GCD[<<Abs(n), d>>]
    IN  [n |-> n \div g, d |-> d \div g]

QInt(k) == [n |-> k, d |-> 1]

QAdd(a, b) == Q(a.n * b.d + b.n * a.d, a.d * b.d)

QSub(a, b) == Q(a.n * b.d - b.n * a.d, a.d * b.d)

QMul(a, b) == Q(a.n * b.n, a.d * b.d)

QLe(a, b) == a.n * b.d <= b.n * a.d

QLt(a, b) == a.n * b.d < b.n * a.d

QMin(a, b) == IF QLe(a, b) THEN a ELSE b

QMax(a, b) == IF QLe(a, b) THEN b ELSE a

QFloor(a) == a.n \div a.d

QCeil(a) == -((-a.n) \div a.d)

\* F applied to the value of x: x is computed once, as a statement of the
\* code computes its operands once
With(x, F(_)) == CHOOSE r \in {F(v) : v \in {x}} : TRUE

---------------------------------------------------------------------------
(* Configuration                                                           *)

OutcomeKinds == {"success", "failure", "rateLimited", "timeout"}

NoTimer == -1

\* The number of samples _adjustRate needs before it decides
MinSamples == 5

\* The floor of the pending-check delay, in milliseconds
MinCheckDelayMs == 100

\* Configurations as the constructor stores them (defaults applied): one
\* with a reservoir of several tokens, a short window and leases that never
\* expire; one with an initialRate above maxRate and minRate = maxRate; one
\* with a fractional initialRate below minRate, whose reservoir holds a
\* single token
Configs ==
    { [initialRate |-> QInt(5), maxRate |-> QInt(6), minRate |-> QInt(1),
       increaseDelta |-> QInt(1), decreaseMultiplier |-> Q(1, 2),
       failureThreshold |-> Q(1, 5), tokenReturnTimeoutMs |-> 0,
       windowMs |-> 1000],
      [initialRate |-> QInt(3), maxRate |-> QInt(1), minRate |-> QInt(1),
       increaseDelta |-> QInt(2), decreaseMultiplier |-> Q(1, 4),
       failureThreshold |-> Q(2, 5), tokenReturnTimeoutMs |-> 2000,
       windowMs |-> 20000],
      [initialRate |-> Q(1, 2), maxRate |-> QInt(2), minRate |-> QInt(1),
       increaseDelta |-> QInt(1), decreaseMultiplier |-> Q(1, 2),
       failureThreshold |-> Q(1, 5), tokenReturnTimeoutMs |-> 1000,
       windowMs |-> 30000] }

\* A validation that lets a decreaseMultiplier of 1 through
ValidateAcceptsOne(c) ==
    /\ ~ QLe(c.initialRate, QInt(0))
    /\ ~ QLe(c.maxRate, QInt(0))
    /\ ~ QLe(c.minRate, QInt(0))
    /\ ~ QLt(c.maxRate, c.minRate)
    /\ ~ (QLe(c.decreaseMultiplier, QInt(0)) \/ QLt(QInt(1), c.decreaseMultiplier))
    /\ ~ (QLt(c.failureThreshold, QInt(0)) \/ QLt(QInt(1), c.failureThreshold))

\* AIMDBucket._validate: TRUE when the constructor does not throw
Validate(c) ==
    /\ ~ QLe(c.initialRate, QInt(0))
    /\ ~ QLe(c.maxRate, QInt(0))
    /\ ~ QLe(c.minRate, QInt(0))
    /\ ~ QLt(c.maxRate, c.minRate)
    /\ ~ (QLe(c.decreaseMultiplier, QInt(0)) \/ QLe(QInt(1), c.decreaseMultiplier))
    /\ ~ (QLt(c.failureThreshold, QInt(0)) \/ QLt(QInt(1), c.failureThreshold))

---------------------------------------------------------------------------
(* State                                                                   *)

VARIABLES
    config,          \* AIMDBucket.config
    now,             \* Date.now()
    rate,            \* AIMDBucket.rate
    tokens,          \* AIMDBucket.tokens
    capacity,        \* AIMDBucket.capacity
    lastRefill,      \* AIMDBucket.lastRefill
    recentOutcomes,  \* AIMDBucket.recentOutcomes
    tokensIssued,    \* AIMDBucket.tokensIssued
    pending,         \* AIMDBucket.pending: the waiters, by acquire call
    isShutdown,      \* AIMDBucket.isShutdown
    pendingTimer,    \* AIMDBucket.pendingTimer: its deadline, or NoTimer
    issued,          \* the AIMDBucketToken objects, in order of creation
    calls,           \* how each acquire call has been settled so far
    rejected,        \* the acquire calls rejected by shutdown, in order
    last             \* the last operation and its result

vars == <<config, now, rate, tokens, capacity, lastRefill, recentOutcomes,
          tokensIssued, pending, isShutdown, pendingTimer, issued, calls,
          rejected, last>>

\* The mutable fields of the bucket and of its tokens, as one record
Bucket ==
    [rate |-> rate, tokens |-> tokens, capacity |-> capacity,
     lastRefill |-> lastRefill, recentOutcomes |-> recentOutcomes,
     tokensIssued |-> tokensIssued, pending |-> pending,
     isShutdown |-> isShutdown, pendingTimer |-> pendingTimer,
     issued |-> issued, calls |-> calls, rejected |-> rejected]

Store(b) ==
    /\ rate' = b.rate
    /\ tokens' = b.tokens
    /\ capacity' = b.capacity
    /\ lastRefill' = b.lastRefill
    /\ recentOutcomes' = b.recentOutcomes
    /\ tokensIssued' = b.tokensIssued
    /\ pending' = b.pending
    /\ isShutdown' = b.isShutdown
    /\ pendingTimer' = b.pendingTimer
    /\ issued' = b.issued
    /\ calls' = b.calls
    /\ rejected' = b.rejected

---------------------------------------------------------------------------
(* AIMDBucketToken                                                         *)

\* A token constructor that arms the expiry timer also for a timeout of 0
NewTokenAlwaysArmed(timeoutMs, t) ==
    [completed |-> FALSE, expired |-> FALSE,
     timeoutHandle |-> IF timeoutMs >= 0 THEN t + timeoutMs ELSE NoTimer]

\* new AIMDBucketToken(bucket, timeoutMs) at time t
NewToken(timeoutMs, t) ==
    [completed |-> FALSE, expired |-> FALSE,
     timeoutHandle |-> IF timeoutMs > 0 THEN t + timeoutMs ELSE NoTimer]

---------------------------------------------------------------------------
(* AIMDBucket, the private helpers                                         *)

\* A drain that serves the newest waiter
DrainNewestFirst(b, t) ==
    IF Len(b.pending) > 0 /\ QLe(QInt(1), b.tokens)
    THEN [b EXCEPT !.pending = SubSeq(@, 1, Len(@) - 1),
                   !.tokens = QSub(@, QInt(1)),
                   !.tokensIssued = @ + 1,
                   !.issued = Append(@, NewToken(config.tokenReturnTimeoutMs, t)),
                   !.calls[b.pending[Len(b.pending)].id] = "token"]
    ELSE b

\* A drain that serves waiters without counting their tokens
RECURSIVE DrainUncounted(_, _)
DrainUncounted(b, t) ==
    IF Len(b.pending) > 0 /\ QLe(QInt(1), b.tokens)
    THEN With([b EXCEPT !.pending = Tail(@),
                        !.tokens = QSub(@, QInt(1)),
                        !.issued = Append(@, NewToken(config.tokenReturnTimeoutMs, t)),
                        !.calls[Head(b.pending).id] = "token"],
              LAMBDA served : DrainUncounted(served, t))
    ELSE b

\* The drain loop of _refill: serve waiters while a whole token is there
RECURSIVE Drain(_, _)
Drain(b, t) ==
    IF Len(b.pending) > 0 /\ QLe(QInt(1), b.tokens)
    THEN With([b EXCEPT !.pending = Tail(@),
                        !.tokens = QSub(@, QInt(1)),
                        !.tokensIssued = @ + 1,
                        !.issued = Append(@, NewToken(config.tokenReturnTimeoutMs, t)),
                        !.calls[Head(b.pending).id] = "token"],
              LAMBDA served : Drain(served, t))
    ELSE b

\* A refill that forgets the ceiling
CreditUncapped(b, t) ==
    QAdd(b.tokens, QMul(Q(t - b.lastRefill, 1000), b.rate))

\* The reservoir after the elapsed time has been credited
Credit(b, t) ==
    QMin(b.capacity,
         QAdd(b.tokens, QMul(Q(t - b.lastRefill, 1000), b.rate)))

\* A refill that does not note when it ran
RefillUnstamped(b, t) ==
    With([b EXCEPT !.tokens = Credit(b, t)],
         LAMBDA credited :
             With(Drain(credited, t),
                  LAMBDA drained :
                      IF Len(drained.pending) = 0 /\ drained.pendingTimer # NoTimer
                      THEN [drained EXCEPT !.pendingTimer = NoTimer]
                      ELSE drained))

\* A refill that leaves the pending-check timer armed when the queue empties
RefillKeepsTimer(b, t) ==
    With([b EXCEPT !.tokens = Credit(b, t), !.lastRefill = t],
         LAMBDA credited : Drain(credited, t))

\* A refill that credits the elapsed time and serves nobody
RefillWithoutDrain(b, t) ==
    [b EXCEPT !.tokens = Credit(b, t), !.lastRefill = t]

\* AIMDBucket._refill at time t
Refill(b, t) ==
    With([b EXCEPT !.tokens = Credit(b, t), !.lastRefill = t],
         LAMBDA credited :
             With(Drain(credited, t),
                  LAMBDA drained :
                      IF Len(drained.pending) = 0 /\ drained.pendingTimer # NoTimer
                      THEN [drained EXCEPT !.pendingTimer = NoTimer]
                      ELSE drained))

\* A ledger that is never pruned
InWindowAll(ledger, t) == ledger

\* A window that leaves out the entries that are exactly windowMs old
InWindowExclusive(ledger, t) ==
    SelectSeq(ledger, LAMBDA o : t - o.timestamp < config.windowMs)

\* The entries of a ledger that are inside the window at time t
InWindow(ledger, t) ==
    SelectSeq(ledger, LAMBDA o : t - o.timestamp <= config.windowMs)

\* A count that takes only the kind failure for a failure
FailuresOnlyFailure(ledger) ==
    Len(SelectSeq(ledger, LAMBDA o : o.outcome = "failure"))

Failures(ledger) ==
    Len(SelectSeq(ledger, LAMBDA o : o.outcome # "success"))

\* An increase that forgets the ceiling maxRate
NextRateNoCeiling(r, ledger) ==
    IF QLt(config.failureThreshold, Q(Failures(ledger), Len(ledger)))
    THEN QMax(config.minRate, QMul(r, config.decreaseMultiplier))
    ELSE QAdd(r, config.increaseDelta)

\* A decrease that takes minRate for a ceiling
NextRateFloorAsCeiling(r, ledger) ==
    IF QLt(config.failureThreshold, Q(Failures(ledger), Len(ledger)))
    THEN QMin(config.minRate, QMul(r, config.decreaseMultiplier))
    ELSE QMin(config.maxRate, QAdd(r, config.increaseDelta))

\* A decrease that forgets the floor minRate
NextRateNoFloor(r, ledger) ==
    IF QLt(config.failureThreshold, Q(Failures(ledger), Len(ledger)))
    THEN QMul(r, config.decreaseMultiplier)
    ELSE QMin(config.maxRate, QAdd(r, config.increaseDelta))

\* A decision that decreases already at the threshold
NextRateInclusive(r, ledger) ==
    IF QLe(config.failureThreshold, Q(Failures(ledger), Len(ledger)))
    THEN QMax(config.minRate, QMul(r, config.decreaseMultiplier))
    ELSE QMin(config.maxRate, QAdd(r, config.increaseDelta))

\* The rate _adjustRate chooses from a pruned ledger of at least 5 entries
NextRate(r, ledger) ==
    IF QLt(config.failureThreshold, Q(Failures(ledger), Len(ledger)))
    THEN QMax(config.minRate, QMul(r, config.decreaseMultiplier))
    ELSE QMin(config.maxRate, QAdd(r, config.increaseDelta))

\* An adjustment that decides on fewer samples
AdjustRateEager(b, t) ==
    With(InWindow(b.recentOutcomes, t),
         LAMBDA pruned :
             IF Len(pruned) < 3
             THEN [b EXCEPT !.recentOutcomes = pruned]
             ELSE With(IF QLt(config.failureThreshold, Q(Failures(pruned), Len(pruned)))
                       THEN QMax(config.minRate, QMul(b.rate, config.decreaseMultiplier))
                       ELSE QMin(config.maxRate, QAdd(b.rate, config.increaseDelta)),
                       LAMBDA r : [b EXCEPT !.recentOutcomes = pruned,
                                            !.rate = r,
                                            !.capacity = QMax(QInt(1), r)]))

\* An adjustment that changes the rate and leaves the capacity as it was
AdjustRateStaleCapacity(b, t) ==
    With(InWindow(b.recentOutcomes, t),
         LAMBDA pruned :
             IF Len(pruned) < MinSamples
             THEN [b EXCEPT !.recentOutcomes = pruned]
             ELSE With(NextRate(b.rate, pruned),
                       LAMBDA r : [b EXCEPT !.recentOutcomes = pruned,
                                            !.rate = r]))

\* An adjustment that fills the reservoir to the new capacity
AdjustRateTopsUp(b, t) ==
    With(InWindow(b.recentOutcomes, t),
         LAMBDA pruned :
             IF Len(pruned) < MinSamples
             THEN [b EXCEPT !.recentOutcomes = pruned]
             ELSE With(NextRate(b.rate, pruned),
                       LAMBDA r : [b EXCEPT !.recentOutcomes = pruned,
                                            !.rate = r,
                                            !.capacity = QMax(QInt(1), r),
                                            !.tokens = QMax(QInt(1), r)]))

\* An adjustment that starts a new ledger once it has decided
AdjustRateResetsLedger(b, t) ==
    With(InWindow(b.recentOutcomes, t),
         LAMBDA pruned :
             IF Len(pruned) < MinSamples
             THEN [b EXCEPT !.recentOutcomes = pruned]
             ELSE With(NextRate(b.rate, pruned),
                       LAMBDA r : [b EXCEPT !.recentOutcomes = <<>>,
                                            !.rate = r,
                                            !.capacity = QMax(QInt(1), r)]))

\* AIMDBucket._adjustRate at time t
AdjustRate(b, t) ==
    With(InWindow(b.recentOutcomes, t),
         LAMBDA pruned :
             IF Len(pruned) < MinSamples
             THEN [b EXCEPT !.recentOutcomes = pruned]
             ELSE With(NextRate(b.rate, pruned),
                       LAMBDA r : [b EXCEPT !.recentOutcomes = pruned,
                                            !.rate = r,
                                            !.capacity = QMax(QInt(1), r)]))

\* Statistics over the whole ledger, aged entries included
GetStatisticsUnwindowed(b, t) ==
    With(b.recentOutcomes,
         LAMBDA recent :
             [currentRate |-> b.rate,
              tokensAvailable |-> b.tokens,
              pendingCount |-> Len(b.pending),
              tokensIssued |-> b.tokensIssued,
              successCount |-> Len(SelectSeq(recent, LAMBDA o : o.outcome = "success")),
              failureCount |-> Len(SelectSeq(recent, LAMBDA o : o.outcome = "failure")),
              rateLimitedCount |-> Len(SelectSeq(recent, LAMBDA o : o.outcome = "rateLimited")),
              timeoutCount |-> Len(SelectSeq(recent, LAMBDA o : o.outcome = "timeout")),
              successRate |->
                  IF Len(recent) > 0
                  THEN Q(Len(SelectSeq(recent, LAMBDA o : o.outcome = "success")), Len(recent))
                  ELSE QInt(0)])

\* AIMDBucket.getStatistics at time t
GetStatistics(b, t) ==
    With(InWindow(b.recentOutcomes, t),
         LAMBDA recent :
             [currentRate |-> b.rate,
              tokensAvailable |-> b.tokens,
              pendingCount |-> Len(b.pending),
              tokensIssued |-> b.tokensIssued,
              successCount |-> Len(SelectSeq(recent, LAMBDA o : o.outcome = "success")),
              failureCount |-> Len(SelectSeq(recent, LAMBDA o : o.outcome = "failure")),
              rateLimitedCount |-> Len(SelectSeq(recent, LAMBDA o : o.outcome = "rateLimited")),
              timeoutCount |-> Len(SelectSeq(recent, LAMBDA o : o.outcome = "timeout")),
              successRate |->
                  IF Len(recent) > 0
                  THEN Q(Len(SelectSeq(recent, LAMBDA o : o.outcome = "success")), Len(recent))
                  ELSE QInt(0)])

\* The delay of the pending check: max(100, 1000 / rate) milliseconds
NextTokenTime(r) == QMax(QInt(MinCheckDelayMs), Q(1000 * r.d, r.n))

\* setTimeout counts whole milliseconds: a fractional delay is rounded
\* down or up, depending on the runtime
TimerDelays(r) == {QFloor(NextTokenTime(r)), QCeil(NextTokenTime(r))}

\* A bucket without the pending check: nothing is ever scheduled
SchedulePendingCheckNever(b, t, delay) == b

\* AIMDBucket._schedulePendingCheck at time t, the timer taking delay ms
SchedulePendingCheck(b, t, delay) ==
    IF b.pendingTimer # NoTimer \/ b.isShutdown
    THEN b
    ELSE [b EXCEPT !.pendingTimer = t + delay]

\* A completion that records and adjusts and leaves the queue to the tick
OnTokenCompleteNoRefill(b, outcome, t) ==
    With([b EXCEPT !.recentOutcomes =
                      Append(@, [timestamp |-> t, outcome |-> outcome])],
         LAMBDA pushed : AdjustRate(pushed, t))

\* AIMDBucket._onTokenComplete at time t
OnTokenComplete(b, outcome, t) ==
    With([b EXCEPT !.recentOutcomes =
                      Append(@, [timestamp |-> t, outcome |-> outcome])],
         LAMBDA pushed :
             With(AdjustRate(pushed, t), LAMBDA adjusted : Refill(adjusted, t)))

\* AIMDBucket._onTokenTimeout at time t
OnTokenTimeout(b, t) ==
    With([b EXCEPT !.recentOutcomes =
                      Append(@, [timestamp |-> t, outcome |-> "timeout"])],
         LAMBDA pushed :
             With(AdjustRate(pushed, t), LAMBDA adjusted : Refill(adjusted, t)))

---------------------------------------------------------------------------
(* Construction                                                            *)

\* AIMDBucket.constructor
InitialRate(c) == QMin(c.initialRate, c.maxRate)

Init ==
    /\ config \in {c \in Configs : Validate(c)}
    /\ now = 0
    /\ rate = InitialRate(config)
    /\ capacity = QMax(QInt(1), InitialRate(config))
    /\ tokens = QMax(QInt(1), InitialRate(config))
    /\ lastRefill = 0
    /\ recentOutcomes = <<>>
    /\ tokensIssued = 0
    /\ pending = <<>>
    /\ isShutdown = FALSE
    /\ pendingTimer = NoTimer
    /\ issued = <<>>
    /\ calls = <<>>
    /\ rejected = <<>>
    /\ last = [op |-> "new", res |-> "ok", arg |-> 0]

---------------------------------------------------------------------------
(* Operations                                                              *)

\* The steps of the clock between two events, in milliseconds
TimeSteps == {1000}

\* The callers are active up to this time; after it only the timers run
MaxTime == MaxSteps * 1000

\* A caller can make a call now
CallersActive == now <= MaxTime

\* acquire on a bucket that has been shut down: it throws
AcquireRejected ==
    /\ Store([Bucket EXCEPT !.calls = Append(@, "shutdown")])
    /\ last' = [op |-> "acquire", res |-> "ShutDown", arg |-> Len(calls) + 1]

\* An acquire that credits the reservoir but does not serve the waiters
\* before it looks for a token of its own
AcquireJumpsQueue ==
    \E id \in {Len(calls) + 1},
       b \in {[Bucket EXCEPT !.tokens = Credit(Bucket, now), !.lastRefill = now]} :
        IF QLe(QInt(1), b.tokens)
        THEN /\ Store([b EXCEPT !.tokens = QSub(@, QInt(1)),
                                !.tokensIssued = @ + 1,
                                !.issued = Append(@, NewToken(config.tokenReturnTimeoutMs, now)),
                                !.calls = Append(@, "token")])
             /\ last' = [op |-> "acquire", res |-> "token", arg |-> id]
        ELSE /\ \E delay \in TimerDelays(b.rate) :
                  \E queued \in {[b EXCEPT !.pending = Append(@, [id |-> id, timestamp |-> now]),
                                            !.calls = Append(@, "waiting")]} :
                      Store(SchedulePendingCheck(queued, now, delay))
             /\ last' = [op |-> "acquire", res |-> "queued", arg |-> id]

\* An acquire that issues a token on any fraction of a token
AcquireOnFraction ==
    \E id \in {Len(calls) + 1}, b \in {Refill(Bucket, now)} :
        IF QLt(QInt(0), b.tokens)
        THEN /\ Store([b EXCEPT !.tokens = QSub(@, QInt(1)),
                                !.tokensIssued = @ + 1,
                                !.issued = Append(@, NewToken(config.tokenReturnTimeoutMs, now)),
                                !.calls = Append(@, "token")])
             /\ last' = [op |-> "acquire", res |-> "token", arg |-> id]
        ELSE /\ \E delay \in TimerDelays(b.rate) :
                  \E queued \in {[b EXCEPT !.pending = Append(@, [id |-> id, timestamp |-> now]),
                                            !.calls = Append(@, "waiting")]} :
                      Store(SchedulePendingCheck(queued, now, delay))
             /\ last' = [op |-> "acquire", res |-> "queued", arg |-> id]

\* acquire on a bucket that has not been shut down: after the refill a
\* token is issued at once, or the call is queued and the check scheduled
AcquireGranted ==
    \E id \in {Len(calls) + 1}, b \in {Refill(Bucket, now)} :
        IF QLe(QInt(1), b.tokens)
        THEN /\ Store([b EXCEPT !.tokens = QSub(@, QInt(1)),
                                !.tokensIssued = @ + 1,
                                !.issued = Append(@, NewToken(config.tokenReturnTimeoutMs, now)),
                                !.calls = Append(@, "token")])
             /\ last' = [op |-> "acquire", res |-> "token", arg |-> id]
        ELSE /\ \E delay \in TimerDelays(b.rate) :
                  \E queued \in {[b EXCEPT !.pending = Append(@, [id |-> id, timestamp |-> now]),
                                            !.calls = Append(@, "waiting")]} :
                      Store(SchedulePendingCheck(queued, now, delay))
             /\ last' = [op |-> "acquire", res |-> "queued", arg |-> id]

\* An acquire that does not look at the shutdown flag
AcquireUnlatched ==
    /\ CallersActive
    /\ Len(calls) < MaxCalls
    /\ UNCHANGED <<config, now>>
    /\ AcquireGranted

\* AIMDBucket.acquire
Acquire ==
    /\ CallersActive
    /\ Len(calls) < MaxCalls
    /\ UNCHANGED <<config, now>>
    /\ IF isShutdown THEN AcquireRejected ELSE AcquireGranted

\* What the caller of the i-th token can report: the request has gone well,
\* or it has failed in the one way the remote side fails it
ReportedKinds(i) ==
    {"success",
     IF i % 3 = 1 THEN "failure" ELSE IF i % 3 = 2 THEN "rateLimited" ELSE "timeout"}

Terminal(tk) == tk.completed \/ tk.expired

\* Callers report on their leases in the order they were issued
InTurn(i) ==
    \A j \in 1..(i - 1) : Terminal(issued[j])

\* A caller who reports on a finished lease does so on the last one finished
Latest(i) ==
    \A j \in (i + 1)..Len(issued) : ~ Terminal(issued[j])

\* A completion that does not look at the expired flag
CompleteIgnoresExpiry(i, outcome) ==
    /\ CallersActive
    /\ i \in 1..Len(issued)
    /\ UNCHANGED <<config, now>>
    /\ IF issued[i].completed
       THEN /\ Latest(i)
            /\ Store(Bucket)
            /\ last' = [op |-> "complete", res |-> "AlreadyCompleted", arg |-> i]
       ELSE /\ outcome \in ReportedKinds(i)
            /\ issued[i].expired \/ InTurn(i)
            /\ \E b \in {OnTokenComplete(
                              [Bucket EXCEPT !.issued[i].completed = TRUE,
                                             !.issued[i].timeoutHandle = NoTimer],
                              outcome, now)} : Store(b)
            /\ last' = [op |-> "complete", res |-> "ok", arg |-> i]

\* A completion that leaves the expiry timer of the token armed
CompleteLeavesTimer(i, outcome) ==
    /\ CallersActive
    /\ i \in 1..Len(issued)
    /\ UNCHANGED <<config, now>>
    /\ IF issued[i].completed
       THEN /\ Latest(i)
            /\ Store(Bucket)
            /\ last' = [op |-> "complete", res |-> "AlreadyCompleted", arg |-> i]
       ELSE IF issued[i].expired
       THEN /\ Latest(i)
            /\ Store(Bucket)
            /\ last' = [op |-> "complete", res |-> "Expired", arg |-> i]
       ELSE /\ outcome \in ReportedKinds(i)
            /\ InTurn(i)
            /\ \E b \in {OnTokenComplete(
                              [Bucket EXCEPT !.issued[i].completed = TRUE],
                              outcome, now)} : Store(b)
            /\ last' = [op |-> "complete", res |-> "ok", arg |-> i]

\* AIMDBucketToken.success / failure / rateLimited / timeout, via _complete
Complete(i, outcome) ==
    /\ CallersActive
    /\ i \in 1..Len(issued)
    /\ UNCHANGED <<config, now>>
    /\ IF issued[i].completed
       THEN /\ Latest(i)
            /\ Store(Bucket)
            /\ last' = [op |-> "complete", res |-> "AlreadyCompleted", arg |-> i]
       ELSE IF issued[i].expired
       THEN /\ Latest(i)
            /\ Store(Bucket)
            /\ last' = [op |-> "complete", res |-> "Expired", arg |-> i]
       ELSE /\ outcome \in ReportedKinds(i)
            /\ InTurn(i)
            /\ \E b \in {OnTokenComplete(
                              [Bucket EXCEPT !.issued[i].completed = TRUE,
                                             !.issued[i].timeoutHandle = NoTimer],
                              outcome, now)} : Store(b)
            /\ last' = [op |-> "complete", res |-> "ok", arg |-> i]

\* The expiry timer of a token fires: the callback of the token constructor
TokenTimeout(i) ==
    /\ i \in 1..Len(issued)
    /\ issued[i].timeoutHandle # NoTimer
    /\ issued[i].timeoutHandle <= now
    /\ UNCHANGED <<config, now>>
    /\ \E b \in {OnTokenTimeout(
                      [Bucket EXCEPT !.issued[i].expired = TRUE,
                                     !.issued[i].timeoutHandle = NoTimer],
                      now)} : Store(b)
    /\ last' = [op |-> "tokenTimeout", res |-> "ok", arg |-> i]

\* The pending-check timer fires: the callback of _schedulePendingCheck
PendingCheck ==
    /\ pendingTimer # NoTimer
    /\ pendingTimer <= now
    /\ UNCHANGED <<config, now>>
    /\ \E b \in {Refill([Bucket EXCEPT !.pendingTimer = NoTimer], now)} :
          IF Len(b.pending) > 0 /\ ~ b.isShutdown
          THEN \E delay \in TimerDelays(b.rate) :
                   \E c \in {SchedulePendingCheck(b, now, delay)} : Store(c)
          ELSE Store(b)
    /\ last' = [op |-> "pendingCheck", res |-> "ok", arg |-> 0]

\* A shutdown that leaves the pending-check timer armed
ShutdownLeavesTimer ==
    /\ CallersActive
    /\ UNCHANGED <<config, now>>
    /\ Store([Bucket EXCEPT
                 !.isShutdown = TRUE,
                 !.pending = <<>>,
                 !.rejected = @ \o [k \in 1..Len(pending) |-> pending[k].id],
                 !.calls = [c \in 1..Len(calls) |->
                               IF \E k \in 1..Len(pending) : pending[k].id = c
                               THEN "shutdown" ELSE calls[c]]])
    /\ last' = [op |-> "shutdown", res |-> "ok", arg |-> 0]

\* A shutdown that also revokes the tokens that are out: it marks them
\* expired and disarms their timers
ShutdownRevokesTokens ==
    /\ CallersActive
    /\ UNCHANGED <<config, now>>
    /\ Store([Bucket EXCEPT
                 !.isShutdown = TRUE,
                 !.pendingTimer = NoTimer,
                 !.pending = <<>>,
                 !.rejected = @ \o [k \in 1..Len(pending) |-> pending[k].id],
                 !.calls = [c \in 1..Len(calls) |->
                               IF \E k \in 1..Len(pending) : pending[k].id = c
                               THEN "shutdown" ELSE calls[c]],
                 !.issued = [i \in 1..Len(issued) |->
                                IF Terminal(issued[i]) THEN issued[i]
                                ELSE [issued[i] EXCEPT !.expired = TRUE,
                                                       !.timeoutHandle = NoTimer]]])
    /\ last' = [op |-> "shutdown", res |-> "ok", arg |-> 0]

\* A shutdown that rejects the waiters and leaves them in the queue
ShutdownKeepsQueue ==
    /\ CallersActive
    /\ UNCHANGED <<config, now>>
    /\ Store([Bucket EXCEPT
                 !.isShutdown = TRUE,
                 !.pendingTimer = NoTimer,
                 !.rejected = @ \o [k \in 1..Len(pending) |-> pending[k].id],
                 !.calls = [c \in 1..Len(calls) |->
                               IF \E k \in 1..Len(pending) : pending[k].id = c
                               THEN "shutdown" ELSE calls[c]]])
    /\ last' = [op |-> "shutdown", res |-> "ok", arg |-> 0]

\* AIMDBucket.shutdown
Shutdown ==
    /\ CallersActive
    /\ UNCHANGED <<config, now>>
    /\ Store([Bucket EXCEPT
                 !.isShutdown = TRUE,
                 !.pendingTimer = NoTimer,
                 !.pending = <<>>,
                 !.rejected = @ \o [k \in 1..Len(pending) |-> pending[k].id],
                 !.calls = [c \in 1..Len(calls) |->
                               IF \E k \in 1..Len(pending) : pending[k].id = c
                               THEN "shutdown" ELSE calls[c]]])
    /\ last' = [op |-> "shutdown", res |-> "ok", arg |-> 0]

---------------------------------------------------------------------------
(* The environment: the clock and the callers                              *)

\* The deadlines of the timers that are armed
Deadlines ==
    {issued[i].timeoutHandle : i \in {j \in 1..Len(issued) : issued[j].timeoutHandle # NoTimer}}
        \cup (IF pendingTimer # NoTimer THEN {pendingTimer} ELSE {})

\* The clock advances: by a step while the callers are active, or to the
\* next deadline; never past the deadline of an armed timer
Advance ==
    /\ \E t \in {now + s : s \in TimeSteps} \cup Deadlines :
          /\ t > now
          /\ \A d \in Deadlines : t <= d
          /\ t <= MaxTime \/ t \in Deadlines
          /\ now' = t
    /\ last' = [op |-> "advance", res |-> "ok", arg |-> 0]
    /\ UNCHANGED <<config, rate, tokens, capacity, lastRefill, recentOutcomes,
                   tokensIssued, pending, isShutdown, pendingTimer, issued,
                   calls, rejected>>

Next ==
    \/ Acquire
    \/ \E i \in 1..MaxCalls, outcome \in OutcomeKinds : Complete(i, outcome)
    \/ \E i \in 1..MaxCalls : TokenTimeout(i)
    \/ PendingCheck
    \/ Shutdown
    \/ Advance

Spec == Init /\ [][Next]_vars

\* The event loop runs every timer callback that is due, and time passes
FairSpec ==
    /\ Spec
    /\ WF_vars(Advance)
    /\ WF_vars(PendingCheck)
    /\ \A i \in 1..MaxCalls : WF_vars(TokenTimeout(i))

---------------------------------------------------------------------------
(* A single caller working in rounds: acquire, report on the token at      *)
(* once, then on to the next round, with at most MaxPauses long pauses     *)
(* between rounds (the loops of the README example and of the rate tests)  *)

\* The pause of the window tests, longer than windowMs
PauseMs == 31000

\* The configuration of the README example and of the rate tests (its
\* maxRate stands for the default, which no run of MaxRounds rounds
\* reaches), and the two of the tests of the ceiling: one that starts
\* below maxRate, one with an initialRate above it
RoundConfigs ==
    { [initialRate |-> QInt(10), maxRate |-> QInt(1000), minRate |-> QInt(1),
       increaseDelta |-> QInt(2), decreaseMultiplier |-> Q(1, 2),
       failureThreshold |-> Q(1, 5), tokenReturnTimeoutMs |-> 30000,
       windowMs |-> 30000],
      [initialRate |-> QInt(8), maxRate |-> QInt(10), minRate |-> QInt(1),
       increaseDelta |-> QInt(5), decreaseMultiplier |-> Q(1, 2),
       failureThreshold |-> Q(1, 5), tokenReturnTimeoutMs |-> 30000,
       windowMs |-> 30000],
      [initialRate |-> QInt(100), maxRate |-> QInt(5), minRate |-> QInt(1),
       increaseDelta |-> QInt(1), decreaseMultiplier |-> Q(1, 2),
       failureThreshold |-> Q(1, 5), tokenReturnTimeoutMs |-> 30000,
       windowMs |-> 30000] }

RoundsInit ==
    /\ config \in {c \in RoundConfigs : Validate(c)}
    /\ now = 0
    /\ rate = InitialRate(config)
    /\ capacity = QMax(QInt(1), InitialRate(config))
    /\ tokens = QMax(QInt(1), InitialRate(config))
    /\ lastRefill = 0
    /\ recentOutcomes = <<>>
    /\ tokensIssued = 0
    /\ pending = <<>>
    /\ isShutdown = FALSE
    /\ pendingTimer = NoTimer
    /\ issued = <<>>
    /\ calls = <<>>
    /\ rejected = <<>>
    /\ last = [op |-> "new", res |-> "ok", arg |-> 0]

\* What the caller reports in round i: success, or the non-success kind of
\* that part of the run
RoundKinds(i) ==
    {"success", IF i <= 5 THEN "rateLimited" ELSE "failure"}

\* const token = await bucket.acquire(), once the round before is over
RoundAcquire ==
    /\ Len(calls) < MaxRounds
    /\ pending = <<>>
    /\ \A i \in 1..Len(issued) : Terminal(issued[i])
    /\ UNCHANGED <<config, now>>
    /\ AcquireGranted

\* token.success() / rateLimited() / failure(), right after the acquire
RoundComplete(outcome) ==
    /\ Len(issued) > 0
    /\ ~ Terminal(issued[Len(issued)])
    /\ outcome \in RoundKinds(Len(issued))
    /\ UNCHANGED <<config, now>>
    /\ \E i \in {Len(issued)} :
          /\ \E b \in {OnTokenComplete(
                            [Bucket EXCEPT !.issued[i].completed = TRUE,
                                           !.issued[i].timeoutHandle = NoTimer],
                            outcome, now)} : Store(b)
          /\ last' = [op |-> "complete", res |-> "ok", arg |-> i]

\* await vi.advanceTimersByTimeAsync(31000), between two rounds
RoundPause ==
    /\ now < MaxPauses * PauseMs
    /\ last.op = "complete"
    /\ now' = now + PauseMs
    /\ last' = [op |-> "advance", res |-> "ok", arg |-> 0]
    /\ UNCHANGED <<config, rate, tokens, capacity, lastRefill, recentOutcomes,
                   tokensIssued, pending, isShutdown, pendingTimer, issued,
                   calls, rejected>>

\* The caller waits in acquire: the clock runs to the pending check
RoundWait ==
    /\ pending # <<>>
    /\ pendingTimer # NoTimer
    /\ now < pendingTimer
    /\ now' = pendingTimer
    /\ last' = [op |-> "advance", res |-> "ok", arg |-> 0]
    /\ UNCHANGED <<config, rate, tokens, capacity, lastRefill, recentOutcomes,
                   tokensIssued, pending, isShutdown, pendingTimer, issued,
                   calls, rejected>>

RoundsNext ==
    \/ RoundAcquire
    \/ \E outcome \in OutcomeKinds : RoundComplete(outcome)
    \/ RoundPause
    \/ RoundWait
    \/ PendingCheck

RoundsSpec == RoundsInit /\ [][RoundsNext]_vars

---------------------------------------------------------------------------
(* Vocabulary of the properties                                            *)

\* The step just taken recorded an outcome: a completion call that went
\* through, or the expiry of a lease
Reported ==
    \/ last.op = "complete" /\ last.res = "ok"
    \/ last.op = "tokenTimeout"

\* The number of entries of a ledger that are not a success
NonSuccess(ledger) ==
    Cardinality({k \in 1..Len(ledger) : ledger[k].outcome # "success"})

Waiting(c) == c <= Len(calls) /\ calls[c] = "waiting"

Served(c) == c <= Len(calls) /\ calls[c] = "token"

Outstanding(i) == i <= Len(issued) /\ ~ Terminal(issued[i])

\* The number of tokens that have been completed or have expired
Done == Cardinality({i \in 1..Len(issued) : Terminal(issued[i])})

\* The number of entries of a ledger of the kind k
CountKind(ledger, k) ==
    Cardinality({j \in 1..Len(ledger) : ledger[j].outcome = k})

\* The configuration is the one of the README example and the rate tests
ExampleConfig ==
    /\ config.initialRate = QInt(10)
    /\ config.increaseDelta = QInt(2)
    /\ config.decreaseMultiplier = Q(1, 2)
    /\ config.failureThreshold = Q(1, 5)

---------------------------------------------------------------------------
(* Properties                                                              *)

\* C1: for every accepted configuration, minRate <= rate <= maxRate in
\* every reachable state, from construction on.
C1_RateWithinBounds ==
    QLe(config.minRate, rate) /\ QLe(rate, config.maxRate)

\* C2: when the callers have gone silent, time passing and the pending
\* check firing serve every queued waiter with a token, at any rate > 0
\* (a waiter is left unserved only by a shutdown).
C2_StarvedWaitersServed ==
    \A c \in 1..MaxCalls : Waiting(c) ~> (Served(c) \/ isShutdown)

\* C2, witness: at a rate below 1, after the callers have gone silent, a
\* pending check has served the last waiter.
C2_Witness ==
    /\ last.op = "pendingCheck"
    /\ now > MaxTime
    /\ QLt(rate, QInt(1))
    /\ pending = <<>>
    /\ \E c \in 2..Len(calls) : calls[c] = "token"
    /\ ~ isShutdown

\* C3: shutdown rejects every waiter queued at that moment, in the order
\* of the queue, empties the queue and disarms the pending check.
C3_ShutdownRejectsWaiters ==
    [][last'.op = "shutdown" =>
          /\ isShutdown'
          /\ pending' = <<>>
          /\ pendingTimer' = NoTimer
          /\ rejected' = rejected \o [k \in 1..Len(pending) |-> pending[k].id]
          /\ \A k \in 1..Len(pending) : calls'[pending[k].id] = "shutdown"
          /\ \A c \in 1..Len(calls) :
                calls[c] # "waiting" => calls'[c] = calls[c]]_vars

\* C3, witness: a shutdown has rejected two waiters, the earlier one first.
C3_Witness ==
    /\ last.op = "shutdown"
    /\ Len(rejected) >= 2
    /\ rejected[1] < rejected[2]
    /\ pending = <<>>

\* C4: once shut down, always shut down: the queue stays empty and the
\* pending check disarmed, no token is created any more and every acquire
\* fails with ShutDown.
C4_ShutdownIsLatch ==
    /\ [](isShutdown => pending = <<>> /\ pendingTimer = NoTimer)
    /\ [][isShutdown =>
             /\ isShutdown'
             /\ tokensIssued' = tokensIssued
             /\ Len(issued') = Len(issued)
             /\ last'.op = "acquire" =>
                   /\ last'.res = "ShutDown"
                   /\ calls' = Append(calls, "shutdown")]_vars

\* C4, witness: after a shutdown and a later completion, an acquire has
\* failed with ShutDown.
C4_Witness ==
    /\ isShutdown
    /\ last.op = "acquire"
    /\ last.res = "ShutDown"
    /\ tokensIssued > 0
    /\ Len(recentOutcomes) > 0

\* C5: a completion call on a completed token fails with AlreadyCompleted,
\* on an expired token with Expired, and the failed call changes nothing.
C5_NoSecondCompletion ==
    [][(last'.op = "complete" /\ Terminal(issued[last'.arg])) =>
          /\ last'.res = IF issued[last'.arg].completed
                         THEN "AlreadyCompleted" ELSE "Expired"
          /\ UNCHANGED <<rate, capacity, tokens, lastRefill, recentOutcomes,
                         tokensIssued, pending, pendingTimer, issued,
                         isShutdown>>]_vars

\* C5, witness: a completion call on an expired token has failed, and the
\* ledger holds the one timeout of the expiry.
C5_Witness ==
    /\ last.op = "complete"
    /\ last.res = "Expired"
    /\ issued[last.arg].expired
    /\ ~ issued[last.arg].completed
    /\ Len(recentOutcomes) = 1

\* C6: a token is created with its expiry due tokenReturnTimeoutMs later;
\* if it is not completed, the expiry comes at that time, marks it expired
\* and records one timeout outcome; with tokenReturnTimeoutMs = 0 no token
\* ever expires, and a token that is neither completed nor expired can
\* always be completed.
C6_TokenExpiry ==
    /\ [][\A i \in 1..Len(issued') :
             IF i > Len(issued)
             THEN issued'[i] =
                     [completed |-> FALSE, expired |-> FALSE,
                      timeoutHandle |->
                          IF config.tokenReturnTimeoutMs = 0 THEN NoTimer
                          ELSE now + config.tokenReturnTimeoutMs]
             ELSE issued'[i].timeoutHandle \in {issued[i].timeoutHandle, NoTimer}]_vars
    /\ [][last'.op = "tokenTimeout" =>
             /\ Outstanding(last'.arg)
             /\ issued[last'.arg].timeoutHandle = now
             /\ issued'[last'.arg].expired
             /\ ~ issued'[last'.arg].completed
             /\ Len(recentOutcomes') >= 1
             /\ Len(recentOutcomes') <= Len(recentOutcomes) + 1
             /\ recentOutcomes'[Len(recentOutcomes')] =
                    [timestamp |-> now, outcome |-> "timeout"]]_vars
    /\ [](config.tokenReturnTimeoutMs = 0 =>
             \A i \in 1..Len(issued) :
                 ~ issued[i].expired /\ issued[i].timeoutHandle = NoTimer)
    /\ [][(last'.op = "complete" /\ Outstanding(last'.arg)) =>
             /\ last'.res = "ok"
             /\ issued'[last'.arg].completed
             /\ ~ issued'[last'.arg].expired]_vars
    /\ \A i \in 1..MaxCalls :
          (Outstanding(i) /\ config.tokenReturnTimeoutMs > 0)
              ~> (i <= Len(issued) /\ Terminal(issued[i]))

\* C6, witness: a lease has expired and its timeout is the newest entry of
\* the ledger.
C6_Witness ==
    /\ last.op = "tokenTimeout"
    /\ issued[last.arg].expired
    /\ ~ issued[last.arg].completed
    /\ recentOutcomes # <<>>
    /\ recentOutcomes[Len(recentOutcomes)].outcome = "timeout"

\* C7: 0 <= tokens <= capacity after every operation, also right after a
\* decrease has shrunk the capacity.
C7_TokensWithinCapacity ==
    QLe(QInt(0), tokens) /\ QLe(tokens, capacity)

\* C7, witness: a report has lowered the rate below the configured start,
\* and the reservoir is full at the smaller capacity.
C7_Witness ==
    /\ Reported
    /\ QLt(rate, InitialRate(config))
    /\ QLt(capacity, QMax(QInt(1), InitialRate(config)))
    /\ tokens = capacity

\* C8: after a report, if at least 5 entries are in the pruned ledger, the
\* rate is max(minRate, rate * decreaseMultiplier) when the share of
\* non-success entries is strictly above failureThreshold, and
\* min(maxRate, rate + increaseDelta) otherwise.
C8_AIMDStep ==
    [][(Reported' /\ Len(recentOutcomes') >= 5) =>
          rate' =
             IF NonSuccess(recentOutcomes') * config.failureThreshold.d
                    > config.failureThreshold.n * Len(recentOutcomes')
             THEN QMax(config.minRate, QMul(rate, config.decreaseMultiplier))
             ELSE QMin(config.maxRate, QAdd(rate, config.increaseDelta))]_vars

\* C8, witness: a report on a ledger of 5 entries has halved the rate.
C8_Witness ==
    /\ Reported
    /\ Len(recentOutcomes) >= 5
    /\ rate = QMul(InitialRate(config), config.decreaseMultiplier)
    /\ QLt(config.minRate, rate)

\* C9: a report that leaves fewer than 5 entries in the window changes
\* neither the rate nor the capacity.
C9_TooFewSamples ==
    [][(Reported' /\ Len(recentOutcomes') < 5) =>
          rate' = rate /\ capacity' = capacity]_vars

\* C9, witness: a report has left 4 entries in the window, none of them a
\* success, and the rate is the initial one.
C9_Witness ==
    /\ Reported
    /\ Len(recentOutcomes) = 4
    /\ NonSuccess(recentOutcomes) = 4
    /\ rate = InitialRate(config)

\* C10: a failure rate exactly at failureThreshold increases the rate.
C10_AtThresholdIncreases ==
    [][(/\ Reported'
        /\ Len(recentOutcomes') >= 5
        /\ NonSuccess(recentOutcomes') * config.failureThreshold.d
               = config.failureThreshold.n * Len(recentOutcomes')) =>
          /\ rate' = QMin(config.maxRate, QAdd(rate, config.increaseDelta))
          /\ QLe(rate, rate')]_vars

\* C10, witness: 1 non-success among 5 entries at a threshold of 1/5, and
\* the rate has gone up by increaseDelta.
C10_Witness ==
    /\ Reported
    /\ Len(recentOutcomes) = 5
    /\ NonSuccess(recentOutcomes) = 1
    /\ config.failureThreshold = Q(1, 5)
    /\ rate = QAdd(InitialRate(config), config.increaseDelta)

\* C11: with initialRate 10, increaseDelta 2, decreaseMultiplier 1/2 and
\* failureThreshold 1/5, fewer than 5 completions leave the rate at 10, and
\* exactly 5 completions (all in the ledger) make it 12 when all are
\* success and 5 when three are rateLimited and two success.
C11_FiveCompletions ==
    ExampleConfig =>
        /\ Done < 5 => rate = QInt(10)
        /\ (/\ Done = 5
            /\ Len(recentOutcomes) = 5
            /\ CountKind(recentOutcomes, "success") = 5) => rate = QInt(12)
        /\ (/\ Done = 5
            /\ Len(recentOutcomes) = 5
            /\ CountKind(recentOutcomes, "rateLimited") = 3
            /\ CountKind(recentOutcomes, "success") = 2) => rate = QInt(5)

\* C11, witness: the fifth completion has just been reported, three of the
\* five were rateLimited, and the rate is 5.
C11_Witness ==
    /\ ExampleConfig
    /\ Reported
    /\ Done = 5
    /\ CountKind(recentOutcomes, "rateLimited") = 3
    /\ CountKind(recentOutcomes, "success") = 2
    /\ rate = QInt(5)

\* The ledger holds n entries: five successes first, failures after them
SuccessesThenFailures(n) ==
    /\ Done = n
    /\ Len(recentOutcomes) = n
    /\ \A j \in 1..n :
          recentOutcomes[j].outcome = IF j <= 5 THEN "success" ELSE "failure"

CanonLedger(ledger) ==
    [j \in 1..Len(ledger) |->
        [timestamp |-> ledger[j].timestamp,
         outcome |-> IF ledger[j].outcome = "success" THEN "success" ELSE "failure"]]

\* A bucket whose ledger does not tell the non-success kinds apart
Canon(b) == [b EXCEPT !.recentOutcomes = CanonLedger(b.recentOutcomes)]

\* What a run shows of the rate, the capacity and the issuance of tokens
Flow(b) ==
    [rate |-> b.rate, capacity |-> b.capacity, tokens |-> b.tokens,
     lastRefill |-> b.lastRefill, tokensIssued |-> b.tokensIssued,
     pending |-> b.pending, pendingTimer |-> b.pendingTimer,
     calls |-> b.calls, created |-> Len(b.issued),
     ledger |-> CanonLedger(b.recentOutcomes)]

\* The bucket with the token i marked completed, as _complete leaves it
Completing(b, i) ==
    [b EXCEPT !.issued[i].completed = TRUE, !.issued[i].timeoutHandle = NoTimer]

\* The bucket with the token i marked expired, as the expiry timer leaves it
Expiring(b, i) ==
    [b EXCEPT !.issued[i].expired = TRUE, !.issued[i].timeoutHandle = NoTimer]

\* C13: in every reachable state, whatever non-success kind is reported on
\* an outstanding token (or recorded by its expiry, when that is due), and
\* whatever non-success kinds the ledger holds, the step gives the same
\* rate, capacity and issuance as with failure everywhere; the statistics
\* differ in the counters of the non-success kinds only.
C13_KindsIndistinguishable ==
    /\ \A i \in 1..Len(issued) :
          ~ Terminal(issued[i]) =>
              /\ \A k \in OutcomeKinds \ {"success"} :
                    Flow(OnTokenComplete(Completing(Bucket, i), k, now))
                        = Flow(OnTokenComplete(Completing(Canon(Bucket), i), "failure", now))
              /\ Flow(OnTokenComplete(Completing(Bucket, i), "success", now))
                    = Flow(OnTokenComplete(Completing(Canon(Bucket), i), "success", now))
              /\ (issued[i].timeoutHandle # NoTimer /\ issued[i].timeoutHandle <= now) =>
                    Flow(OnTokenTimeout(Expiring(Bucket, i), now))
                        = Flow(OnTokenComplete(Completing(Canon(Bucket), i), "failure", now))
    /\ \A f \in {"currentRate", "tokensAvailable", "pendingCount", "tokensIssued",
                  "successCount", "successRate"} :
          GetStatistics(Bucket, now)[f] = GetStatistics(Canon(Bucket), now)[f]

\* C13, witness: an expiry has made the fifth entry of a ledger that holds
\* two more non-success kinds, and the statistics tell them apart.
C13_Witness ==
    /\ last.op = "tokenTimeout"
    /\ Len(recentOutcomes) >= 5
    /\ GetStatistics(Bucket, now).timeoutCount >= 1
    /\ GetStatistics(Bucket, now).rateLimitedCount >= 1
    /\ GetStatistics(Bucket, now).failureCount >= 1

\* The entries of the ledger that are not older than windowMs now
Live ==
    {j \in 1..Len(recentOutcomes) :
        now - recentOutcomes[j].timestamp <= config.windowMs}

\* C14: a report decides on the entries not older than windowMs and the new
\* one alone, and leaves no older entry in the ledger: the rate moves as if
\* the aged entries had never been reported; getStatistics counts the
\* entries not older than windowMs alone.
C14_WindowOnly ==
    /\ [][Reported' =>
             LET new == recentOutcomes'[Len(recentOutcomes')]
                 n == Cardinality(Live) + 1
                 f == Cardinality({j \in Live : recentOutcomes[j].outcome # "success"})
                          + (IF new.outcome # "success" THEN 1 ELSE 0)
             IN  /\ Len(recentOutcomes') = n
                 /\ \A j \in 1..Len(recentOutcomes') :
                       now - recentOutcomes'[j].timestamp <= config.windowMs
                 /\ rate' =
                       IF n < 5 THEN rate
                       ELSE IF f * config.failureThreshold.d > config.failureThreshold.n * n
                            THEN QMax(config.minRate, QMul(rate, config.decreaseMultiplier))
                            ELSE QMin(config.maxRate, QAdd(rate, config.increaseDelta))]_vars
    /\ [](LET st == GetStatistics(Bucket, now)
               Of(k) == Cardinality({j \in Live : recentOutcomes[j].outcome = k})
           IN  /\ st.successCount = Of("success")
               /\ st.failureCount = Of("failure")
               /\ st.rateLimitedCount = Of("rateLimited")
               /\ st.timeoutCount = Of("timeout")
               /\ st.successRate =
                     IF Live = {} THEN QInt(0) ELSE Q(Of("success"), Cardinality(Live)))

\* C14, witness: five rateLimited reports have halved the rate, they have
\* aged out during the pause, and the fifth success after it has raised
\* the rate by increaseDelta; the statistics show the successes alone.
C14_Witness ==
    /\ ExampleConfig
    /\ Reported
    /\ Done = 10
    /\ Len(recentOutcomes) = 5
    /\ \A j \in 1..5 : recentOutcomes[j].timestamp >= PauseMs
    /\ rate = QInt(7)
    /\ GetStatistics(Bucket, now).successCount = 5
    /\ GetStatistics(Bucket, now).rateLimitedCount = 0
    /\ GetStatistics(Bucket, now).tokensIssued = 10

\* C15: the queue is in the order of the calls, and every step serves a
\* prefix of it: a waiter is served only if every waiter before it is, and
\* the waiters left keep their order at the head of the queue.
C15_FIFO ==
    /\ [](\A a, b \in 1..Len(pending) :
             a < b => /\ pending[a].id < pending[b].id
                      /\ pending[a].timestamp <= pending[b].timestamp)
    /\ [][LET k == Cardinality({a \in 1..Len(pending) : calls'[pending[a].id] # "waiting"})
           IN  /\ \A a, b \in 1..Len(pending) :
                     (a < b /\ calls'[pending[b].id] = "token")
                         => calls'[pending[a].id] = "token"
               /\ Len(pending') >= Len(pending) - k
               /\ \A a \in (k + 1)..Len(pending) : pending'[a - k] = pending[a]]_vars

\* C15, witness: a pending check has served a waiter while a later waiter
\* is left at the head of the queue.
C15_Witness ==
    /\ last.op = "pendingCheck"
    /\ Len(pending) >= 1
    /\ pending[1].id >= 3
    /\ Served(pending[1].id - 1)
    /\ tokensIssued >= 2

\* C16, as stated: an acquire that arrives while waiters are queued, after
\* the elapsed time has freed a token and before the pending check has
\* run, takes the token itself and leaves the waiters in the queue.
C16_FreshCallerWins ==
    [][(/\ last'.op = "acquire"
        /\ ~ isShutdown
        /\ pending # <<>>
        /\ QLe(QInt(1), Credit(Bucket, now))) =>
          (last'.res = "token" /\ pending' # <<>>)]_vars

\* C16, amended: the refill at the start of acquire serves the waiters
\* first: an acquire returns a token at once only when its refill has left
\* no waiter in the queue, all of them served; while a waiter is left the
\* new call is queued behind it.
C16_WaitersFirst ==
    [][(last'.op = "acquire" /\ ~ isShutdown) =>
          /\ last'.res = "token" =>
                /\ pending' = <<>>
                /\ \A a \in 1..Len(pending) : calls'[pending[a].id] = "token"
          /\ last'.res = "queued" =>
                /\ pending'[Len(pending')].id = last'.arg
                /\ \A a \in 1..Len(pending) :
                      \/ calls'[pending[a].id] = "token"
                      \/ \E c \in 1..(Len(pending') - 1) : pending'[c] = pending[a]]_vars

\* C16, witness: at a rate below 1 the second call is waiting when, before
\* the pending check is due, the third call arrives; the token that time
\* has freed has gone to the waiter and the third call is queued.
C16_Witness ==
    /\ last = [op |-> "acquire", res |-> "queued", arg |-> 3]
    /\ QLt(rate, QInt(1))
    /\ calls = <<"token", "token", "waiting">>
    /\ tokensIssued = 2
    /\ tokens = QInt(0)
    /\ lastRefill = now

\* C17: an acquire on a bucket that is not shut down refills first; with
\* tokens >= 1 after the refill it takes exactly one token, counts it and
\* returns it, queueing nothing; otherwise, and only then, it appends the
\* caller at the tail of the queue, arms the pending check if it is not
\* armed, and issues nothing.
C17_Acquire ==
    [][(last'.op = "acquire" /\ ~ isShutdown) =>
          LET b == Refill(Bucket, now)
          IN  /\ lastRefill' = now
              /\ rate' = rate /\ capacity' = capacity
              /\ recentOutcomes' = recentOutcomes
              /\ last'.res = IF QLe(QInt(1), b.tokens) THEN "token" ELSE "queued"
              /\ last'.res = "token" =>
                    /\ tokens' = QSub(b.tokens, QInt(1))
                    /\ tokensIssued' = b.tokensIssued + 1
                    /\ Len(issued') = Len(b.issued) + 1
                    /\ pending' = b.pending
                    /\ pendingTimer' = b.pendingTimer
                    /\ calls' = Append(b.calls, "token")
              /\ last'.res = "queued" =>
                    /\ tokens' = b.tokens
                    /\ tokensIssued' = b.tokensIssued
                    /\ issued' = b.issued
                    /\ pending' = Append(b.pending, [id |-> last'.arg, timestamp |-> now])
                    /\ calls' = Append(b.calls, "waiting")
                    /\ pendingTimer' # NoTimer
                    /\ b.pendingTimer # NoTimer => pendingTimer' = b.pendingTimer
                    /\ b.pendingTimer = NoTimer =>
                          pendingTimer' - now \in TimerDelays(rate)]_vars

\* C17, witness: with half a token in the reservoir a second caller has
\* been queued behind the first waiter, the pending check already armed.
C17_Witness ==
    /\ last.op = "acquire"
    /\ last.res = "queued"
    /\ Len(pending) = 2
    /\ pending[2].id = last.arg
    /\ QLt(QInt(0), tokens)
    /\ QLt(tokens, QInt(1))
    /\ pendingTimer > now

\* C18: right after construction the rate is initialRate clamped into
\* [minRate, maxRate].
C18_InitialRateClamped ==
    last.op = "new" =>
        rate = QMax(config.minRate, QMin(config.initialRate, config.maxRate))

\* C19: the rate is never above maxRate; a step on a ledger of successes
\* alone raises it by increaseDelta or, where that would pass maxRate, to
\* maxRate exactly, and at maxRate it stays there.
C19_NeverAboveMax ==
    /\ [](QLe(rate, config.maxRate))
    /\ [][(/\ Reported'
           /\ Len(recentOutcomes') >= 5
           /\ NonSuccess(recentOutcomes') = 0) =>
             /\ \/ rate' = config.maxRate
                \/ rate' = QAdd(rate, config.increaseDelta) /\ QLt(rate', config.maxRate)
             /\ rate = config.maxRate => rate' = config.maxRate]_vars

\* C19, witness: under successes alone the rate has climbed to maxRate and
\* a further step has left it there.
C19_Witness ==
    /\ Reported
    /\ Done >= 6
    /\ Len(recentOutcomes) = Done
    /\ NonSuccess(recentOutcomes) = 0
    /\ QLt(InitialRate(config), config.maxRate)
    /\ rate = config.maxRate

\* C20: a decrease step leaves the rate at minRate or above: it multiplies
\* by decreaseMultiplier or, where that would pass minRate, gives minRate
\* exactly, and at minRate it stays there.
C20_NeverBelowMin ==
    [][(/\ Reported'
        /\ Len(recentOutcomes') >= 5
        /\ NonSuccess(recentOutcomes') * config.failureThreshold.d
               > config.failureThreshold.n * Len(recentOutcomes')) =>
          /\ QLe(config.minRate, rate')
          /\ \/ rate' = config.minRate
             \/ rate' = QMul(rate, config.decreaseMultiplier)
          /\ rate = config.minRate => rate' = config.minRate]_vars

\* C20, witness: under failures alone the rate has fallen to minRate and a
\* further step has left it there.
C20_Witness ==
    /\ Reported
    /\ Done >= 9
    /\ Len(recentOutcomes) = Done
    /\ NonSuccess(recentOutcomes) = Done
    /\ QLt(config.minRate, InitialRate(config))
    /\ rate = config.minRate

---------------------------------------------------------------------------
(* C21: in every reachable state the capacity is max(1, rate): it is set   *)
(* so by the constructor and again by every adjustment of the rate, and    *)
(* it is never below 1, also when the rate is a fraction below 1.          *)
C21_CapacityFollowsRate ==
    /\ capacity = QMax(QInt(1), rate)
    /\ QLe(QInt(1), capacity)
    /\ QLt(rate, QInt(1)) => capacity = QInt(1)

\* Reports have moved the rate away from its initial value, to a value that
\* is not a whole number, and the capacity has followed it
C21_Witness ==
    /\ Reported
    /\ rate # InitialRate(config)
    /\ rate.d > 1
    /\ capacity = rate
    /\ capacity # QMax(QInt(1), InitialRate(config))

---------------------------------------------------------------------------
(* C22: tokensIssued counts the tokens ever handed out. It never           *)
(* decreases; every step raises it by exactly the number of tokens the     *)
(* step creates, one per acquire call it serves, on the immediate path of  *)
(* acquire and on the deferred path of the drain alike; a completion that  *)
(* fails (token already completed or expired) and a shutdown leave it      *)
(* unchanged, and so do a completion, an expiry and the pruning of the     *)
(* ledger themselves: what they add is the waiters their refill serves.    *)
C22_TokensIssuedCounts ==
    /\ [](tokensIssued = Len(issued))
    /\ [][ /\ tokensIssued' >= tokensIssued
           /\ tokensIssued' - tokensIssued =
                  Cardinality({c \in 1..Len(calls') :
                                  /\ calls'[c] = "token"
                                  /\ (c > Len(calls) \/ calls[c] # "token")})
           /\ tokensIssued' - tokensIssued = Len(issued') - Len(issued)
           /\ last'.op = "acquire" /\ last'.res = "token"
                  => tokensIssued' = tokensIssued + 1 + (Len(pending) - Len(pending'))
           /\ last'.op \in {"complete", "tokenTimeout", "pendingCheck", "advance"}
                  => tokensIssued' = tokensIssued + (Len(pending) - Len(pending'))
           /\ last'.op = "complete" /\ last'.res # "ok"
                  => tokensIssued' = tokensIssued
           /\ last'.op = "shutdown" => tokensIssued' = tokensIssued
           /\ Len(recentOutcomes') < Len(recentOutcomes) /\ pending = <<>>
                  => tokensIssued' = tokensIssued ]_vars

\* The pending check has just served a waiter (the newest token was armed
\* in this step), after tokens were handed out by acquire itself and some
\* of them were completed or expired: every call served counts once
C22_Witness ==
    /\ last.op = "pendingCheck"
    /\ config.tokenReturnTimeoutMs > 0
    /\ tokensIssued >= 3
    /\ issued[Len(issued)].timeoutHandle = now + config.tokenReturnTimeoutMs
    /\ Done >= 1
    /\ tokensIssued = Cardinality({c \in 1..Len(calls) : calls[c] = "token"})

---------------------------------------------------------------------------
(* C23: a token makes exactly one terminal transition. It is created       *)
(* pending (neither completed nor expired); completed and expired never    *)
(* hold together; once completed it stays completed and never becomes      *)
(* expired, once expired it stays expired and never becomes completed; and *)
(* no step changes a token other than by one of these two transitions.     *)
C23_OneTerminalTransition ==
    /\ [](\A i \in 1..Len(issued) : ~ (issued[i].completed /\ issued[i].expired))
    /\ [][ /\ Len(issued') >= Len(issued)
           /\ \A i \in 1..Len(issued') :
                  IF i > Len(issued)
                  THEN ~ issued'[i].completed /\ ~ issued'[i].expired
                  ELSE /\ issued[i].completed
                           => issued'[i].completed /\ ~ issued'[i].expired
                       /\ issued[i].expired
                           => issued'[i].expired /\ ~ issued'[i].completed
                       /\ Terminal(issued[i]) => issued'[i] = issued[i] ]_vars

\* One token completed, another expired, a third still pending, and a
\* completion has just been refused on a token that had its transition
C23_Witness ==
    /\ \E i, j, k \in 1..Len(issued) :
           /\ issued[i].completed /\ ~ issued[i].expired
           /\ issued[j].expired /\ ~ issued[j].completed
           /\ ~ issued[k].completed /\ ~ issued[k].expired
    /\ last.op = "complete"
    /\ last.res \in {"AlreadyCompleted", "Expired"}

---------------------------------------------------------------------------
(* C24: shutdown does not invalidate the tokens already issued. The step   *)
(* of shutdown leaves every token as it was, expiry timer included; after  *)
(* it a token that is neither completed nor expired still has its timer    *)
(* armed (when tokenReturnTimeoutMs > 0), a completion of such a token     *)
(* goes through without error and is recorded, and its expiry, if it is    *)
(* left alone, marks it expired and records a timeout as before shutdown.  *)
C24_ShutdownKeepsTokens ==
    /\ [][last'.op = "shutdown" => issued' = issued]_vars
    /\ [](isShutdown /\ config.tokenReturnTimeoutMs > 0 =>
             \A i \in 1..Len(issued) :
                 Outstanding(i) => issued[i].timeoutHandle # NoTimer)
    /\ [][(isShutdown /\ last'.op = "complete" /\ Outstanding(last'.arg)) =>
             /\ last'.res = "ok"
             /\ issued'[last'.arg].completed
             /\ ~ issued'[last'.arg].expired
             /\ Len(recentOutcomes') >= 1
             /\ recentOutcomes'[Len(recentOutcomes')].timestamp = now]_vars
    /\ [][(isShutdown /\ last'.op = "tokenTimeout") =>
             /\ Outstanding(last'.arg)
             /\ issued'[last'.arg].expired
             /\ recentOutcomes'[Len(recentOutcomes')] =
                    [timestamp |-> now, outcome |-> "timeout"]]_vars

\* After a shutdown that rejected a waiter, a token that was out has just
\* been completed without error, and another one is still out with its
\* expiry timer armed
C24_Witness ==
    /\ isShutdown
    /\ \E c \in 1..Len(calls) : calls[c] = "shutdown"
    /\ last.op = "complete"
    /\ last.res = "ok"
    /\ issued[last.arg].completed
    /\ \E j \in 1..Len(issued) :
           Outstanding(j) /\ issued[j].timeoutHandle > now

---------------------------------------------------------------------------
(* C25: getStatistics reports, over the entries of the ledger not older    *)
(* than windowMs at the time of the call, one count per kind of outcome;   *)
(* the four counts add up to the number of those entries; successRate is   *)
(* successCount over that number, and 0 when there is none; tokensIssued   *)
(* is the lifetime count of tokens, pendingCount the length of the queue   *)
(* and currentRate the rate.                                               *)
C25_Statistics ==
    LET st == GetStatistics(Bucket, now)
        total == Cardinality(Live)
    IN  /\ \A k \in OutcomeKinds :
               (CASE k = "success" -> st.successCount
                  [] k = "failure" -> st.failureCount
                  [] k = "rateLimited" -> st.rateLimitedCount
                  [] k = "timeout" -> st.timeoutCount)
                   = Cardinality({j \in Live : recentOutcomes[j].outcome = k})
        /\ st.successCount + st.failureCount + st.rateLimitedCount + st.timeoutCount
               = total
        /\ total > 0 => st.successRate = Q(st.successCount, total)
        /\ total = 0 => st.successRate = QInt(0)
        /\ st.tokensIssued = Len(issued)
        /\ st.pendingCount = Len(pending)
        /\ st.pendingCount = Cardinality({c \in 1..Len(calls) : calls[c] = "waiting"})
        /\ st.currentRate = rate

\* The ledger holds an entry that has aged out of the window and is not
\* counted, next to entries of two kinds that are, and more tokens have
\* been issued than there are entries in the window
C25_Witness ==
    LET st == GetStatistics(Bucket, now)
    IN  /\ Cardinality(Live) < Len(recentOutcomes)
        /\ st.successCount >= 1
        /\ st.failureCount + st.rateLimitedCount + st.timeoutCount >= 1
        /\ QLt(QInt(0), st.successRate) /\ QLt(st.successRate, QInt(1))
        /\ st.tokensIssued > Cardinality(Live)

---------------------------------------------------------------------------
(* Construction with arbitrary arguments                                   *)

\* The configurations a caller may ask for, defaults applied: every field
\* that _validate looks at takes values below, on and above its limits, and
\* increaseDelta and windowMs, which it does not look at, take a value that
\* makes no sense as well
TriedConfigs ==
    [initialRate : {QInt(-1), QInt(0), Q(1, 2), QInt(3)},
     maxRate : {QInt(-1), QInt(0), QInt(1), Q(5, 2)},
     minRate : {QInt(-1), QInt(0), Q(1, 2), QInt(1), QInt(2)},
     increaseDelta : {QInt(-1), QInt(1)},
     decreaseMultiplier : {Q(-1, 2), QInt(0), Q(1, 2), QInt(1), Q(3, 2)},
     failureThreshold : {Q(-1, 10), QInt(0), Q(1, 5), QInt(1), Q(11, 10)},
     tokenReturnTimeoutMs : {0},
     windowMs : {0, 1000}]

\* The fields of an AIMDBucket before its constructor has assigned them
Unassigned == [n |-> 0, d |-> 1]

\* `new AIMDBucket(config)` is about to be evaluated
ConstructInit ==
    /\ config \in TriedConfigs
    /\ now = 0
    /\ rate = Unassigned
    /\ capacity = Unassigned
    /\ tokens = Unassigned
    /\ lastRefill = 0
    /\ recentOutcomes = <<>>
    /\ tokensIssued = 0
    /\ pending = <<>>
    /\ isShutdown = FALSE
    /\ pendingTimer = NoTimer
    /\ issued = <<>>
    /\ calls = <<>>
    /\ rejected = <<>>
    /\ last = [op |-> "call", res |-> "none", arg |-> 0]

\* A constructor that leaves the reservoir empty
ConstructStartsEmpty ==
    /\ last.op = "call"
    /\ UNCHANGED <<config, now, lastRefill, recentOutcomes, tokensIssued,
                   pending, isShutdown, pendingTimer, issued, calls, rejected>>
    /\ IF Validate(config)
       THEN /\ rate' = InitialRate(config)
            /\ capacity' = QMax(QInt(1), InitialRate(config))
            /\ tokens' = QInt(0)
            /\ last' = [op |-> "new", res |-> "ok", arg |-> 0]
       ELSE /\ UNCHANGED <<rate, capacity, tokens>>
            /\ last' = [op |-> "new", res |-> "Error", arg |-> 0]

\* AIMDBucket.constructor: it throws out of _validate, and the caller gets
\* no bucket, or it assigns rate, capacity and tokens
Construct ==
    /\ last.op = "call"
    /\ UNCHANGED <<config, now, lastRefill, recentOutcomes, tokensIssued,
                   pending, isShutdown, pendingTimer, issued, calls, rejected>>
    /\ IF Validate(config)
       THEN /\ rate' = InitialRate(config)
            /\ capacity' = QMax(QInt(1), InitialRate(config))
            /\ tokens' = QMax(QInt(1), InitialRate(config))
            /\ last' = [op |-> "new", res |-> "ok", arg |-> 0]
       ELSE /\ UNCHANGED <<rate, capacity, tokens>>
            /\ last' = [op |-> "new", res |-> "Error", arg |-> 0]

\* The caller holds a bucket: the constructor has returned
Constructed == last.op # "call" /\ last.res # "Error"

\* AIMDBucket.acquire on the bucket the constructor returned
FirstAcquires ==
    /\ Constructed
    /\ Len(calls) < MaxCalls
    /\ UNCHANGED <<config, now>>
    /\ AcquireGranted

ConstructNext == Construct \/ FirstAcquires

ConstructSpec == ConstructInit /\ [][ConstructNext]_vars

\* C26: construction fails, and the caller gets no bucket, exactly when,
\* after defaults are applied, initialRate <= 0, maxRate <= 0, minRate <= 0,
\* minRate > maxRate, decreaseMultiplier is outside (0, 1) or
\* failureThreshold is outside [0, 1]; every other configuration is
\* accepted, minRate = maxRate included, and gives a bucket that serves.
C26_ValidationExact ==
    /\ [](last.op # "call" =>
             (last.res = "Error" <=>
                 \/ config.initialRate.n <= 0
                 \/ config.maxRate.n <= 0
                 \/ config.minRate.n <= 0
                 \/ config.minRate.n * config.maxRate.d
                        > config.maxRate.n * config.minRate.d
                 \/ config.decreaseMultiplier.n <= 0
                 \/ config.decreaseMultiplier.n >= config.decreaseMultiplier.d
                 \/ config.failureThreshold.n < 0
                 \/ config.failureThreshold.n > config.failureThreshold.d))
    /\ [](last.res = "Error" =>
             /\ ~ Constructed
             /\ rate = Unassigned /\ capacity = Unassigned /\ tokens = Unassigned
             /\ calls = <<>> /\ issued = <<>>)
    /\ [][last.res = "Error" => UNCHANGED vars]_vars
    /\ [](Constructed =>
             /\ rate = QMin(config.initialRate, config.maxRate)
             /\ QLt(QInt(0), rate)
             /\ Len(calls) >= 1 => calls[1] = "token")

\* A configuration with minRate = maxRate, a negative increaseDelta and a
\* window of 0 ms has been accepted, and its bucket has served a caller
C26_Witness ==
    /\ Constructed
    /\ config.minRate = config.maxRate
    /\ config.increaseDelta = QInt(-1)
    /\ config.windowMs = 0
    /\ Len(calls) >= 1
    /\ calls[1] = "token"

---------------------------------------------------------------------------
\* The rateAdjustmentCooldownMs of the README's example configuration
CooldownMs == 2000

\* C27: with rateAdjustmentCooldownMs configured, the rate is adjusted at
\* most once per interval of that length. Stated on a caller who passes
\* CooldownMs and whose reports are all still in the ledger: the fifth
\* report is the first to adjust the rate, so when it has changed the rate
\* and every later report came less than CooldownMs after it, the rate is
\* still the one the fifth report set.
C27_CooldownRespected ==
    ( /\ Reported
      /\ Done >= 6
      /\ Len(recentOutcomes) = Done
      /\ NextRate(InitialRate(config), SubSeq(recentOutcomes, 1, 5))
             # InitialRate(config)
      /\ recentOutcomes[Done].timestamp - recentOutcomes[5].timestamp < CooldownMs )
        => rate = NextRate(InitialRate(config), SubSeq(recentOutcomes, 1, 5))

---------------------------------------------------------------------------
\* Rates at which the sample minimum is looked for, next to the current one
SampleRates == {QInt(1), QInt(2), QInt(5), QInt(10)}

\* A ledger of n fresh entries of the kind k
Uniform(n, k) == [j \in 1..n |-> [timestamp |-> now, outcome |-> k]]

\* _adjustRate, at rate r and with n samples in the window, changes the
\* rate: upwards when they are successes or downwards when failures
MovesRate(r, n) ==
    \E k \in {"success", "failure"} :
        AdjustRate([Bucket EXCEPT !.rate = r, !.recentOutcomes = Uniform(n, k)],
                   now).rate # r

\* The minimum number of samples required for a rate adjustment at rate r
SamplesNeeded(r) ==
    CHOOSE n \in 1..MaxSamplesTried :
        MovesRate(r, n) /\ \A m \in 1..(n - 1) : ~ MovesRate(r, m)

\* C28: the minimum number of samples required for a rate adjustment
\* adapts to the current rate: it is not the same number at every rate.
C28_AdaptiveSamples ==
    \E r1, r2 \in SampleRates \cup {rate} :
        SamplesNeeded(r1) # SamplesNeeded(r2)

---------------------------------------------------------------------------
(* C29: a fresh bucket starts full: rate = min(initialRate, maxRate),      *)
(* capacity = max(1, rate), tokens = capacity. While no time passes, the   *)
(* first acquire is served at once, also at a fractional rate below 1,     *)
(* and exactly floor(capacity) acquires are served at once before the      *)
(* first is queued: the c-th call holds a token if c <= capacity and       *)
(* waits in the queue otherwise.                                           *)
C29_StartsFull ==
    Constructed =>
        /\ rate = QMin(config.initialRate, config.maxRate)
        /\ capacity = (IF rate.n < rate.d THEN QInt(1) ELSE rate)
        /\ Len(calls) = 0 => tokens = capacity
        /\ Len(calls) >= 1 => calls[1] = "token"
        /\ \A c \in 1..Len(calls) :
               calls[c] = (IF c * capacity.d <= capacity.n THEN "token" ELSE "waiting")
        /\ tokensIssued = Cardinality({c \in 1..Len(calls) : c * capacity.d <= capacity.n})
        /\ Len(pending) = Len(calls) - tokensIssued
        /\ tokens = QSub(capacity, QInt(tokensIssued))

\* At the rate 1/2 the reservoir of one token has served the first caller
\* at once and the second caller has been queued
C29_Witness ==
    /\ Constructed
    /\ rate = Q(1, 2)
    /\ capacity = QInt(1)
    /\ Len(calls) = 2
    /\ calls[1] = "token"
    /\ calls[2] = "waiting"

---------------------------------------------------------------------------
\* How long after the current time _refill is tried, in milliseconds
RefillAfter == {0, 500, 1000}

\* The smaller of the whole tokens in x and the number of waiters n
ServedOf(x, n) == IF QFloor(x) < n THEN QFloor(x) ELSE n

(* C30: _refill at the time t credits min(capacity, tokens +                *)
(* (t - lastRefill) / 1000 * rate), sets lastRefill = t, and then drains:   *)
(* it serves as many waiters as there are whole tokens, one token each.     *)
(* Called again at the same t it changes nothing: tokens, lastRefill, the   *)
(* queue and tokensIssued are as the first call left them.                  *)
C30_RefillIdempotent ==
    \A d \in RefillAfter :
        LET t == now + d
            sum == [n |-> tokens.n * 1000 * rate.d + (t - lastRefill) * rate.n * tokens.d,
                    d |-> tokens.d * 1000 * rate.d]
            credited == IF sum.n * capacity.d <= capacity.n * sum.d
                        THEN Q(sum.n, sum.d) ELSE capacity
            once == Refill(Bucket, t)
            twice == Refill(once, t)
            served == ServedOf(credited, Len(pending))
        IN  /\ once.lastRefill = t
            /\ once.tokens = QSub(credited, QInt(served))
            /\ once.tokensIssued = tokensIssued + served
            /\ once.pending = SubSeq(pending, served + 1, Len(pending))
            /\ once.rate = rate /\ once.capacity = capacity
            /\ once.recentOutcomes = recentOutcomes
            /\ twice.tokens = once.tokens
            /\ twice.lastRefill = once.lastRefill
            /\ twice.pending = once.pending
            /\ twice.tokensIssued = once.tokensIssued
            /\ twice = once

\* Time has passed since the last refill and a caller is waiting: a refill
\* now credits a positive amount below the capacity, serves the waiter and
\* keeps a fraction of a token, and a second refill changes nothing
C30_Witness ==
    /\ now > lastRefill
    /\ Len(pending) >= 1
    /\ Refill(Bucket, now).tokensIssued > tokensIssued
    /\ Refill(Bucket, now).lastRefill = now
    /\ QLt(Refill(Bucket, now).tokens, capacity)
    /\ Refill(Refill(Bucket, now), now) = Refill(Bucket, now)

---------------------------------------------------------------------------
(* C31: after every operation the pending-check timer is armed if and only *)
(* if the queue is not empty and the bucket is not shut down. It is armed  *)
(* by the enqueue that makes the queue non-empty, armed again after a tick *)
(* only if waiters remain, and disarmed by the step that empties the       *)
(* queue. There is one timer at most: an armed timer is replaced only by   *)
(* its own tick or after a drain that emptied the queue and disarmed it.   *)
C31_TimerIffWaiters ==
    /\ [](pendingTimer # NoTimer <=> (Len(pending) > 0 /\ ~ isShutdown))
    /\ [][ /\ (pendingTimer = NoTimer /\ pendingTimer' # NoTimer)
                => /\ last'.op = "acquire" /\ last'.res = "queued"
                   /\ Len(pending') = 1
                   /\ pendingTimer' > now
           /\ (pendingTimer # NoTimer /\ pendingTimer' = NoTimer)
                => Len(pending') = 0
           /\ (pendingTimer # NoTimer /\ pendingTimer' # NoTimer
                  /\ pendingTimer' # pendingTimer)
                => \/ /\ last'.op = "pendingCheck"
                      /\ pendingTimer <= now
                      /\ Len(pending') > 0
                      /\ pendingTimer' > now
                   \/ /\ last'.op = "acquire" /\ last'.res = "queued"
                      /\ Len(pending') = 1
                      /\ \A k \in 1..Len(pending) : calls'[pending[k].id] = "token" ]_vars

\* A tick has just served the head of the queue, a waiter remains, and the
\* timer has been armed again for a later time
C31_Witness ==
    /\ last.op = "pendingCheck"
    /\ Len(pending) >= 1
    /\ pendingTimer > now
    /\ ~ isShutdown
    /\ \E c \in 1..Len(calls) : c < pending[1].id /\ calls[c] = "token"
    /\ tokensIssued >= 2

---------------------------------------------------------------------------
(* C32: a completion of a pending token, and likewise an expiry, appends   *)
(* its outcome to the ledger, then adjusts the rate, then refills and      *)
(* drains, all in one step: the new entry is the last of the ledger, the   *)
(* rate is the one decided on the ledger with that entry, the time since   *)
(* the last refill is credited at the new rate up to the new capacity, and *)
(* the waiters that the credited reservoir has whole tokens for are served *)
(* by this step, not by the tick.                                          *)
C32_ReportThenAdjustThenDrain ==
    [][ ((last'.op = "complete" /\ last'.res = "ok") \/ last'.op = "tokenTimeout") =>
          LET n == Len(recentOutcomes')
              sum == QAdd(tokens, QMul(Q(now - lastRefill, 1000), rate'))
              credited == IF QLe(sum, capacity') THEN sum ELSE capacity'
              served == ServedOf(credited, Len(pending))
          IN  /\ n >= 1
              /\ recentOutcomes'[n].timestamp = now
              /\ last'.op = "tokenTimeout" => recentOutcomes'[n].outcome = "timeout"
              /\ rate' = IF n < MinSamples THEN rate ELSE NextRate(rate, recentOutcomes')
              /\ capacity' = QMax(QInt(1), rate')
              /\ lastRefill' = now
              /\ tokens' = QSub(credited, QInt(served))
              /\ tokensIssued' = tokensIssued + served
              /\ pending' = SubSeq(pending, served + 1, Len(pending))
              /\ \A k \in 1..served : calls'[pending[k].id] = "token"
              /\ (QLe(QInt(1), credited) /\ Len(pending) > 0) => served >= 1 ]_vars

\* A completion has just served a waiter: the newest token was created at
\* the time of the report, for a call that had been queued, and the tick
\* has not run
C32_Witness ==
    /\ last.op = "complete"
    /\ last.res = "ok"
    /\ now > 0
    /\ lastRefill = now
    /\ recentOutcomes[Len(recentOutcomes)].timestamp = now
    /\ config.tokenReturnTimeoutMs > 0
    /\ issued[Len(issued)].timeoutHandle = now + config.tokenReturnTimeoutMs
    /\ Len(issued) > last.arg

---------------------------------------------------------------------------
(* C33: after every operation a non-empty queue implies tokens < 1: no     *)
(* whole token lies in the reservoir while a caller waits. So an acquire   *)
(* takes the immediate path only with an empty queue behind it: its own    *)
(* refill has served every waiter before it looks at the reservoir.        *)
C33_NoTokenWhileWaiting ==
    /\ [](Len(pending) > 0 => QLt(tokens, QInt(1)))
    /\ [][(last'.op = "acquire" /\ last'.res = "token") =>
              /\ Len(pending') = 0
              /\ tokensIssued' = tokensIssued + Len(pending) + 1
              /\ QLe(QInt(Len(pending) + 1), Credit(Bucket, now))]_vars

\* Time has passed, an acquire has just been queued behind a waiter, and
\* its refill has credited a fraction of a token, less than a whole one
C33_Witness ==
    /\ last.op = "acquire"
    /\ last.res = "queued"
    /\ Len(pending) >= 2
    /\ now > 0
    /\ lastRefill = now
    /\ QLt(QInt(0), tokens)
    /\ QLt(tokens, QInt(1))

---------------------------------------------------------------------------
(* C34: every acquire call is settled exactly once: with a token at once,  *)
(* with a token from a later drain, or with a ShutDown rejection. The      *)
(* queue holds exactly the calls not settled yet, each once; a settled     *)
(* call stays as it was settled; a waiter leaves the queue only by a drain *)
(* that creates its token or by the shutdown that rejects it, never by     *)
(* both, and nothing else (no cancellation, no waiting timeout) takes it   *)
(* out of the queue.                                                       *)
C34_SettledOnce ==
    /\ [](/\ \A c \in 1..Len(calls) : calls[c] \in {"token", "waiting", "shutdown"}
          /\ \A c \in 1..Len(calls) :
                 Cardinality({k \in 1..Len(pending) : pending[k].id = c})
                     = (IF calls[c] = "waiting" THEN 1 ELSE 0)
          /\ \A k \in 1..Len(pending) : pending[k].id \in 1..Len(calls)
          /\ Len(issued) = Cardinality({c \in 1..Len(calls) : calls[c] = "token"})
          /\ \A c \in 1..Len(calls) :
                 Cardinality({k \in 1..Len(rejected) : rejected[k] = c}) <= 1
          /\ \A k \in 1..Len(rejected) : calls[rejected[k]] = "shutdown")
    /\ [][ /\ Len(calls') \in {Len(calls), Len(calls) + 1}
           /\ \A c \in 1..Len(calls) :
                  /\ calls[c] # "waiting" => calls'[c] = calls[c]
                  /\ (calls[c] = "waiting" /\ calls'[c] = "token")
                         => /\ last'.op \in {"acquire", "complete", "tokenTimeout",
                                             "pendingCheck"}
                            /\ Len(issued') > Len(issued)
                            /\ ~ isShutdown'
                            /\ \A k \in 1..Len(rejected') : rejected'[k] # c
                  /\ (calls[c] = "waiting" /\ calls'[c] = "shutdown")
                         => /\ last'.op = "shutdown"
                            /\ Len(issued') = Len(issued)
                            /\ \E k \in 1..Len(rejected') : rejected'[k] = c ]_vars

\* Time has passed and two calls hold a token, more than the reservoir
\* held at the start: a drain has served a waiter; a later waiter was
\* rejected by shutdown, and the call after shutdown has just been refused
C34_Witness ==
    /\ isShutdown
    /\ now > 0
    /\ QLt(QMax(QInt(1), InitialRate(config)), QInt(2))
    /\ Cardinality({c \in 1..Len(calls) : calls[c] = "token"}) >= 2
    /\ Len(rejected) >= 1
    /\ Cardinality({c \in 1..Len(calls) : calls[c] = "shutdown"}) > Len(rejected)
    /\ last.op = "acquire"
    /\ last.res = "ShutDown"

---------------------------------------------------------------------------
\* The tokens that turn from pending to completed or expired in a step
Turned == {i \in 1..Len(issued) : ~ Terminal(issued[i]) /\ Terminal(issued'[i])}

(* C35: however the completion calls of a caller and the expiry timer of   *)
(* the same token interleave, at most one of them takes effect. A step     *)
(* appends to the ledger exactly when it turns one pending token into a    *)
(* completed or an expired one, and then it appends one entry; a token     *)
(* that has turned has no timer left and no later call or timer appends    *)
(* for it. So the outcomes ever appended are as many as the tokens that    *)
(* have turned, and never more than tokensIssued.                          *)
C35_OneOutcomePerToken ==
    /\ [](/\ Done <= tokensIssued
          /\ Len(recentOutcomes) <= Done
          /\ \A i \in 1..Len(issued) :
                 Terminal(issued[i]) => issued[i].timeoutHandle = NoTimer)
    /\ [][ /\ Cardinality(Turned) <= 1
           /\ Turned # {} <=> \/ last'.op = "complete" /\ last'.res = "ok"
                              \/ last'.op = "tokenTimeout"
           /\ Turned # {} => /\ Turned = {last'.arg}
                             /\ Len(recentOutcomes') <= Len(recentOutcomes) + 1
                             /\ Len(recentOutcomes') >= 1
                             /\ recentOutcomes'[Len(recentOutcomes')].timestamp = now
                             /\ \E k \in 0..Len(recentOutcomes) :
                                    SubSeq(recentOutcomes', 1, Len(recentOutcomes') - 1)
                                        = SubSeq(recentOutcomes, k + 1, Len(recentOutcomes))
           /\ Turned = {} => recentOutcomes' = recentOutcomes ]_vars

\* The first token of the bucket of rate 1/2 was completed at the very
\* time its expiry was due: the completion won, the timer is gone, and the
\* ledger has the caller's entry alone for it
C35_Witness ==
    /\ config.initialRate = Q(1, 2)
    /\ now <= MaxTime
    /\ Len(issued) >= 2
    /\ issued[1].completed
    /\ ~ issued[1].expired
    /\ recentOutcomes[1].timestamp = config.tokenReturnTimeoutMs
    /\ recentOutcomes[1].outcome # "timeout"
    /\ Len(recentOutcomes) = Done

---------------------------------------------------------------------------
(* C36: tokens come from elapsed time alone. The tokens issued plus the    *)
(* tokens in the reservoir start at the initial capacity and grow in a     *)
(* step by no more than the time that step's refill credits at the rate of *)
(* that refill, and by less only when the capacity cuts the credit; a step *)
(* issues no more tokens than the whole tokens of the credited reservoir   *)
(* and takes one from it for each, so the reservoir is never negative.     *)
(* While the clock stands at 0 no acquire and no report, not even one that *)
(* raises the rate, brings the tokens issued above the initial capacity.   *)
C36_TokensFromTimeOnly ==
    /\ [](QLe(QInt(0), tokens))
    /\ [](now = 0 =>
             /\ QLe(QAdd(QInt(tokensIssued), tokens), QMax(QInt(1), InitialRate(config)))
             /\ tokensIssued <= QFloor(QMax(QInt(1), InitialRate(config))))
    /\ [][ LET gain == QMul(Q(lastRefill' - lastRefill, 1000), rate')
               had == QAdd(QInt(tokensIssued), tokens)
               has == QAdd(QInt(tokensIssued'), tokens')
               handed == tokensIssued' - tokensIssued
           IN  /\ lastRefill' >= lastRefill
               /\ QLe(has, QAdd(had, gain))
               /\ QLt(has, QAdd(had, gain)) => QAdd(tokens', QInt(handed)) = capacity'
               /\ handed >= 0
               /\ handed <= QFloor(QAdd(tokens, gain)) ]_vars

\* With the clock at 0 five successes have raised the rate and the
\* capacity above the initial capacity, every token of the initial
\* reservoir has been issued, and the next call has been queued
C36_Witness ==
    /\ now = 0
    /\ QLt(InitialRate(config), rate)
    /\ QLt(QMax(QInt(1), InitialRate(config)), capacity)
    /\ QInt(tokensIssued) = QMax(QInt(1), InitialRate(config))
    /\ tokens = QInt(0)
    /\ Len(pending) = 1

---------------------------------------------------------------------------
\* The rate after the first k reports of the ledger, when none of them has
\* been pruned: _adjustRate applied report by report
RECURSIVE RateAfter(_)
RateAfter(k) ==
    IF k = 0 THEN InitialRate(config)
    ELSE IF k < MinSamples THEN RateAfter(k - 1)
    ELSE NextRate(RateAfter(k - 1), SubSeq(recentOutcomes, 1, k))

---------------------------------------------------------------------------
(* The read-only operations                                                *)

\* A getStatistics that brings the bucket up to date first: it refills
\* and prunes the ledger
GetStatisticsNowRefreshes ==
    /\ CallersActive
    /\ UNCHANGED <<config, now>>
    /\ \E b \in {Refill([Bucket EXCEPT !.recentOutcomes = InWindow(@, now)], now)} :
           Store(b)
    /\ last' = [op |-> "getStatistics", res |-> "ok", arg |-> 0]

\* AIMDBucket.getStatistics, called now: it returns GetStatistics(Bucket,
\* now) and assigns no field
GetStatisticsNow ==
    /\ CallersActive
    /\ UNCHANGED <<config, now>>
    /\ Store(Bucket)
    /\ last' = [op |-> "getStatistics", res |-> "ok", arg |-> 0]

\* AIMDBucket.getCurrentRate: it returns this.rate
GetCurrentRate ==
    /\ CallersActive
    /\ UNCHANGED <<config, now>>
    /\ Store(Bucket)
    /\ last' = [op |-> "getCurrentRate", res |-> "ok", arg |-> 0]

ObservedNext == Next \/ GetStatisticsNow \/ GetCurrentRate

ObservedSpec == Init /\ [][ObservedNext]_vars

(* C38: getCurrentRate and getStatistics change no state of the bucket:    *)
(* rate, capacity, tokens, lastRefill, the stored ledger, the queue,       *)
(* tokensIssued and the timers are as before. getStatistics does not       *)
(* refill: tokensAvailable is the reservoir as the last refill left it;    *)
(* and it does not prune: aged entries stay in the stored ledger.          *)
C38_ReadsChangeNothing ==
    [][last'.op \in {"getCurrentRate", "getStatistics"} =>
          /\ UNCHANGED <<config, now, rate, tokens, capacity, lastRefill,
                         recentOutcomes, tokensIssued, pending, isShutdown,
                         pendingTimer, issued, calls, rejected>>
          /\ GetStatistics(Bucket, now)' = GetStatistics(Bucket, now)
          /\ GetStatistics(Bucket, now).tokensAvailable = tokens
          /\ GetStatistics(Bucket, now).currentRate = rate ]_vars

\* getStatistics has just been called when time had passed since the last
\* refill, so that a refill would have credited the reservoir, and when an
\* entry of the stored ledger had aged out of the window
C38_Witness ==
    /\ last.op = "getStatistics"
    /\ now > lastRefill
    /\ QLt(tokens, Credit(Bucket, now))
    /\ Cardinality(Live) < Len(recentOutcomes)
    /\ GetStatistics(Bucket, now).tokensAvailable = tokens

---------------------------------------------------------------------------
(* Starvation: callers acquire and nobody reports                          *)

\* Buckets whose tokens are never reported on and never expire, at rates
\* whose token interval 1000 / rate is a whole number of milliseconds
\* (1/2, 1, 5/2) and at one where it is not (3)
StarvedConfigs ==
    { [initialRate |-> r, maxRate |-> QInt(1000), minRate |-> QInt(1),
       increaseDelta |-> QInt(1), decreaseMultiplier |-> Q(1, 2),
       failureThreshold |-> Q(1, 5), tokenReturnTimeoutMs |-> 0,
       windowMs |-> 30000] : r \in {Q(1, 2), QInt(1), Q(5, 2), QInt(3)} }

StarvedInit ==
    /\ config \in {c \in StarvedConfigs : Validate(c)}
    /\ now = 0
    /\ rate = InitialRate(config)
    /\ capacity = QMax(QInt(1), InitialRate(config))
    /\ tokens = QMax(QInt(1), InitialRate(config))
    /\ lastRefill = 0
    /\ recentOutcomes = <<>>
    /\ tokensIssued = 0
    /\ pending = <<>>
    /\ isShutdown = FALSE
    /\ pendingTimer = NoTimer
    /\ issued = <<>>
    /\ calls = <<>>
    /\ rejected = <<>>
    /\ last = [op |-> "new", res |-> "ok", arg |-> 0]

\* AIMDBucket.acquire, by a caller who never reports
StarvedAcquire ==
    /\ Len(calls) < MaxCalls
    /\ UNCHANGED <<config, now>>
    /\ AcquireGranted

\* Nothing happens until the pending-check timer is due
StarvedWait ==
    /\ pendingTimer # NoTimer
    /\ pendingTimer > now
    /\ now' = pendingTimer
    /\ last' = [op |-> "advance", res |-> "ok", arg |-> 0]
    /\ UNCHANGED <<config, rate, tokens, capacity, lastRefill, recentOutcomes,
                   tokensIssued, pending, isShutdown, pendingTimer, issued,
                   calls, rejected>>

StarvedNext == StarvedAcquire \/ StarvedWait \/ PendingCheck

StarvedSpec == StarvedInit /\ [][StarvedNext]_vars

\* The pending-check timer was armed by the last refill: nothing has
\* refilled the bucket since
ArmedAtLastRefill ==
    /\ pendingTimer # NoTimer
    /\ pendingTimer - lastRefill \in TimerDelays(rate)

\* C39: under starvation every tick of the pending check serves at least
\* one waiter.
C39_EveryTickServes ==
    [][(last'.op = "pendingCheck" /\ ArmedAtLastRefill) =>
          tokensIssued' > tokensIssued]_vars

(* C39, amended: under starvation a tick serves at least one waiter when   *)
(* the delay the timer actually took, in whole milliseconds, is at least   *)
(* 1000 / rate, or when the fraction left in the reservoir makes up for    *)
(* what is missing: it serves exactly when reservoir plus credit reach a   *)
(* whole token. Where 1000 / rate is not a whole number of milliseconds    *)
(* and the timer rounds it down, a tick on an empty reservoir serves       *)
(* nobody: it keeps the credit, less than one token, and arms the timer    *)
(* again, and the tick after it serves.                                    *)
C39_TickServesWhenCreditIsWhole ==
    [][(last'.op = "pendingCheck" /\ ArmedAtLastRefill) =>
          LET took == pendingTimer - lastRefill
              credited == QMin(capacity, QAdd(tokens, QMul(Q(took, 1000), rate)))
          IN  /\ now = pendingTimer
              /\ tokensIssued' > tokensIssued <=> QLe(QInt(1), credited)
              /\ took * rate.n >= 1000 * rate.d => tokensIssued' > tokensIssued
              /\ QLe(Q(1, 2), tokens) => tokensIssued' > tokensIssued
              /\ tokensIssued' = tokensIssued =>
                    /\ took * rate.n < 1000 * rate.d
                    /\ tokens' = credited
                    /\ QLt(tokens, tokens')
                    /\ QLe(Q(1, 2), tokens')
                    /\ pending' = pending
                    /\ pendingTimer' # NoTimer
                    /\ pendingTimer' - now \in TimerDelays(rate) ]_vars

\* At the rate 3 the timer took 333 ms, the tick found 999/1000 of a token,
\* served nobody and armed the timer again
C39_Witness ==
    /\ last.op = "pendingCheck"
    /\ rate = QInt(3)
    /\ now = 333
    /\ tokens = Q(999, 1000)
    /\ Len(pending) >= 1
    /\ pendingTimer > now

---------------------------------------------------------------------------
\* The entries of the ledger that are exactly windowMs old now
OnTheBound ==
    {j \in 1..Len(recentOutcomes) :
        now - recentOutcomes[j].timestamp = config.windowMs}

\* The entries of the ledger that are less than windowMs old now
Younger ==
    {j \in 1..Len(recentOutcomes) :
        now - recentOutcomes[j].timestamp < config.windowMs}

(* C40: the bound of the window is inclusive. An entry that is exactly     *)
(* windowMs old is counted by getStatistics and is kept by a report, which *)
(* counts it towards the 5 samples and in the failure share of its         *)
(* decision; an entry is dropped only when it is older than windowMs.      *)
C40_WindowInclusive ==
    /\ [](LET st == GetStatistics(Bucket, now)
          IN  st.successCount + st.failureCount + st.rateLimitedCount + st.timeoutCount
                  = Cardinality(Younger) + Cardinality(OnTheBound))
    /\ [][Reported' =>
             LET n == Cardinality(Younger) + Cardinality(OnTheBound) + 1
                 bad == Cardinality({j \in Younger \cup OnTheBound :
                                        recentOutcomes[j].outcome # "success"})
                        + (IF recentOutcomes'[Len(recentOutcomes')].outcome = "success"
                           THEN 0 ELSE 1)
             IN  /\ Len(recentOutcomes') = n
                 /\ \A j \in OnTheBound :
                        \E k \in 1..(n - 1) : recentOutcomes'[k] = recentOutcomes[j]
                 /\ \A k \in 1..n :
                        now - recentOutcomes'[k].timestamp <= config.windowMs
                 /\ n < MinSamples => rate' = rate
                 /\ n >= MinSamples =>
                        rate' = IF bad * config.failureThreshold.d
                                       > config.failureThreshold.n * n
                                THEN QMax(config.minRate,
                                          QMul(rate, config.decreaseMultiplier))
                                ELSE QMin(config.maxRate,
                                          QAdd(rate, config.increaseDelta)) ]_vars

\* A report has just made five samples with entries that are exactly
\* windowMs old, and has moved the rate on them; getStatistics counts the
\* five
C40_Witness ==
    /\ Reported
    /\ Len(recentOutcomes) = MinSamples
    /\ OnTheBound # {}
    /\ Cardinality(Younger) < MinSamples
    /\ rate # InitialRate(config)
    /\ GetStatistics(Bucket, now).successCount
           + GetStatistics(Bucket, now).failureCount
           + GetStatistics(Bucket, now).rateLimitedCount
           + GetStatistics(Bucket, now).timeoutCount = MinSamples

====
